---- MODULE Spec2Model ----
(***************************************************************************)
(* Verification model of consult7: the document render (format_content),  *)
(* the provider registry, the OpenRouter streaming read, and the          *)
(* consultation orchestration (consultation_impl) over the adapters.      *)
(* Each component has its own specification; the variables of the other   *)
(* components stay at their idle values.                                   *)
(***************************************************************************)
EXTENDS Integers, Sequences, FiniteSets, TLC

(***************************************************************************)
(* Program constants                                                       *)
(***************************************************************************)
MAX_FILE_SIZE == 10000000
MAX_TOTAL_SIZE == 100000000
MAX_RESPONSE_SIZE == 100000

(***************************************************************************)
(* Bounds of the model                                                     *)
(***************************************************************************)
MaxFiles == 3
MaxCustom == 2
MaxRegistrations == 4
MaxFrames == 3
MaxEstimates == 2
MaxBudgets == 3

VARIABLES
    \* ---- format_content ----
    r_pc,            \* "idle" | "loop" | "done"
    n_files,         \* len(all_files)
    include_images,  \* parameter include_images
    max_total,       \* value of the module global MAX_TOTAL_SIZE read by the loop
    all_files,       \* what the loop observed of each processed file, in sorted order
    total_size,      \* local total_size
    content_list,    \* per-file content parts appended by the loop
    errors,          \* the errors list (in/out parameter)
    \* ---- providers/__init__.py ----
    g_pc,            \* position in the module body, or "anyorder"
    GOOGLE_AVAILABLE,
    OPENAI_AVAILABLE,
    PROVIDERS,       \* the registry: provider name -> adapter
    config_file,     \* the custom_providers entries of the YAML file
    custom_configs,  \* what ConfigLoader.load() returned, not yet iterated
    reg_log,         \* names handed to a registration call, in call order
    \* ---- OpenRouterProvider.call_llm, from the request on ----
    s_pc,            \* "idle" | "request" | "reading" | "done"
    sse_lines,       \* the lines the server sends, in order
    s_next,          \* index of the next line of aiter_lines()
    thinking_mode,   \* parameter thinking_mode
    thinking_budget, \* parameter thinking_budget
    collected_content,
    finish_reason,
    s_result,        \* the returned (response, error, reasoning) triple
    \* ---- consultation_impl ----
    c_pc,            \* position of the request
    provider,        \* parameter provider
    model,           \* parameter model, as its "|"-separated parts
    api_key,         \* TRUE when an API key was supplied
    c_include_images,\* parameter include_images
    all_files_count, \* len(text_files) + len(image_files)
    discover_errors, \* TRUE when discover_files returned errors
    c_total_size,    \* total_size returned by format_content
    acme_config,     \* the configuration of the declared provider "acme"
    model_info,      \* the dict returned by get_model_context_info
    content_to_send, \* "unset" | "parts" (List[Dict]) | "str"
    request_text,    \* what the vendor request holds of the included file text
    adapter_calls,   \* adapter methods called so far, in order
    deadline,        \* state of `async with asyncio.timeout(LLM_CALL_TIMEOUT)`
    vendor_response, \* what the vendor answered to the completion call
    llm_result,      \* the triple call_llm returned
    c_result,        \* what consultation_impl returned or raised
    \* ---- token_utils ----
    u_call,          \* the latest call of a token_utils function, with its result
    u_estimates,     \* the estimate_tokens calls made so far, in call order
    u_budgets,       \* the calculate_max_file_size calls made for one model and context
    \* ---- discover_files ----
    d_pc,            \* "idle" | "start" | "compile" | "walk" | "done"
    d_input,         \* base_path, pattern and exclude_pattern, as the code sees them
    d_tree,          \* the directories os.walk(base) lists, in its order
    d_next,          \* index of the next directory of the walk
    text_files,      \* local text_files
    image_files,     \* local image_files
    d_errors,        \* local errors
    d_result,        \* what discover_files returned or raised
    \* ---- server.py: concurrent consultation requests ----
    model_context_length, \* module global model_context_length
    q_provider,      \* module global provider, set by main()
    q_pc,            \* per request: position in consultation_impl
    q_model,         \* per request: parameter model
    q_fetch,         \* per request: what the vendor answers to its metadata fetches
    q_local,         \* per request: its local model_context_length
    q_result         \* per request: what consultation_impl returned

renderVars == <<r_pc, n_files, include_images, max_total, all_files,
                total_size, content_list, errors>>

registryVars == <<g_pc, GOOGLE_AVAILABLE, OPENAI_AVAILABLE, PROVIDERS,
                  config_file, custom_configs, reg_log>>

streamVars == <<s_pc, sse_lines, s_next, thinking_mode, thinking_budget,
                collected_content, finish_reason, s_result>>

consultVars == <<c_pc, provider, model, api_key, c_include_images,
                 all_files_count, discover_errors, c_total_size, acme_config,
                 model_info, content_to_send, request_text, adapter_calls, deadline,
                 vendor_response, llm_result, c_result>>

tokenVars == <<u_call, u_estimates, u_budgets>>

discoverVars == <<d_pc, d_input, d_tree, d_next, text_files, image_files,
                  d_errors, d_result>>

serverVars == <<model_context_length, q_provider, q_pc, q_model, q_fetch,
                q_local, q_result>>

vars == <<renderVars, registryVars, streamVars, consultVars, tokenVars,
          discoverVars, serverVars>>

\* What the actions of one component leave alone.
nonRenderVars == <<registryVars, streamVars, consultVars, tokenVars, discoverVars,
    serverVars>>
nonRegistryVars == <<renderVars, streamVars, consultVars, tokenVars, discoverVars,
    serverVars>>
nonStreamVars == <<renderVars, registryVars, consultVars, tokenVars, discoverVars,
    serverVars>>
nonConsultVars == <<renderVars, registryVars, streamVars, tokenVars, discoverVars,
    serverVars>>
nonTokenVars == <<renderVars, registryVars, streamVars, consultVars, discoverVars,
    serverVars>>
nonDiscoverVars == <<renderVars, registryVars, streamVars, consultVars, tokenVars,
    serverVars>>
nonServerVars == <<renderVars, registryVars, streamVars, consultVars, tokenVars,
    discoverVars>>

(***************************************************************************)
(* Values shared by the components                                         *)
(***************************************************************************)
\* Optional[int]: None, or an integer.
NoneInt == [isNone |-> TRUE, v |-> 0]
SomeInt(v) == [isNone |-> FALSE, v |-> v]

\* The thinking_budget argument: None, one of the marker strings, or an int.
BudgetNone == [kind |-> "None", n |-> 0]
BudgetMarker(m) == [kind |-> m, n |-> 0]
BudgetTokens(n) == [kind |-> "int", n |-> n]
ThinkingBudgets ==
    {BudgetNone, BudgetTokens(0), BudgetTokens(5000)}
        \cup {BudgetMarker(m) : m \in {"effort_high", "effort_medium",
                                        "enabled_high", "enabled_low"}}

\* Text is kept run-length encoded: a sequence of runs of one character.
Run(c, n) == [c |-> c, n |-> n]
EmptyText == <<>>
\* A value that is no str: None where a str is expected.
NoneText == <<Run("None", 0)>>

RECURSIVE StrLen(_)
StrLen(t) == IF t = <<>> THEN 0 ELSE t[1].n + StrLen(Tail(t))

\* s + t
Cat(s, t) ==
    IF s = <<>> THEN t
    ELSE IF t = <<>> THEN s
    ELSE IF s[Len(s)].c = t[1].c
         THEN SubSeq(s, 1, Len(s) - 1)
                \o <<Run(t[1].c, s[Len(s)].n + t[1].n)>> \o Tail(t)
         ELSE s \o t

\* t[:k]
RECURSIVE Take(_, _)
Take(t, k) ==
    IF k <= 0 \/ t = <<>> THEN <<>>
    ELSE IF t[1].n <= k THEN Cat(<<t[1]>>, Take(Tail(t), k - t[1].n))
    ELSE <<Run(t[1].c, k)>>

\* "\n[TRUNCATED - Response exceeded size limit]"
TruncationMarker == <<Run("[TRUNCATED - Response exceeded size limit]", 1)>>

\* base.process_llm_response
process_llm_response(response_content) ==
    LET response == IF response_content = NoneText \/ response_content = EmptyText
                    THEN EmptyText ELSE response_content
    IN IF StrLen(response) > MAX_RESPONSE_SIZE
       THEN Cat(Take(response, MAX_RESPONSE_SIZE), TruncationMarker)
       ELSE response

NoProviders == [n \in {} |-> "none"]

(***************************************************************************)
(* Idle values: a component that a specification does not run              *)
(***************************************************************************)
RenderIdle ==
    /\ r_pc = "idle" /\ n_files = 0 /\ include_images = FALSE
    /\ max_total = MAX_TOTAL_SIZE /\ all_files = <<>> /\ total_size = 0
    /\ content_list = <<>> /\ errors = <<>>

RegistryIdle ==
    /\ g_pc = "idle" /\ GOOGLE_AVAILABLE = FALSE /\ OPENAI_AVAILABLE = FALSE
    /\ PROVIDERS = NoProviders /\ config_file = <<>> /\ custom_configs = <<>>
    /\ reg_log = <<>>

NoResult == [response |-> EmptyText, error |-> "unset", reasoning |-> NoneInt]

StreamIdle ==
    /\ s_pc = "idle" /\ sse_lines = <<>> /\ s_next = 1
    /\ thinking_mode = FALSE /\ thinking_budget = BudgetNone
    /\ collected_content = <<>> /\ finish_reason = "None"
    /\ s_result = NoResult

NoVendorResponse == [kind |-> "unset", content |-> EmptyText, reasoning |-> NoneInt]
NoModelInfo == [context_length |-> 0, supports_images |-> FALSE,
                adapter_info |-> "not_called", fetch |-> "none"]
NoOutcome == [kind |-> "unset", tag |-> "unset", files |-> NoneInt,
              bytes |-> NoneInt, response |-> EmptyText, budget_info |-> "none"]

ConsultIdle ==
    /\ c_pc = "idle" /\ provider = "openrouter" /\ model = <<>>
    /\ api_key = FALSE /\ c_include_images = FALSE
    /\ all_files_count = 0 /\ discover_errors = FALSE /\ c_total_size = 0
    /\ acme_config = [thinking_mode |-> FALSE, models |-> {}]
    /\ model_info = NoModelInfo /\ content_to_send = "unset"
    /\ request_text = "unset"
    /\ adapter_calls = <<>> /\ deadline = "unarmed"
    /\ vendor_response = NoVendorResponse
    /\ llm_result = NoResult /\ c_result = NoOutcome

NoCall == [fn |-> "none", args |-> <<>>, ret |-> <<>>]

TokenIdle == u_call = NoCall /\ u_estimates = <<>> /\ u_budgets = <<>>

ServerIdle ==
    /\ model_context_length = NoneInt /\ q_provider = "openrouter"
    /\ q_pc = <<>> /\ q_model = <<>> /\ q_fetch = <<>> /\ q_local = <<>>
    /\ q_result = <<>>

NoInput == [base |-> "none", wildcard |-> FALSE, pattern |-> "none",
            exclude_pattern |-> "none"]

NoReturn == [kind |-> "none"]

DiscoverIdle ==
    /\ d_pc = "idle" /\ d_input = NoInput /\ d_tree = <<>> /\ d_next = 0
    /\ text_files = <<>> /\ image_files = <<>> /\ d_errors = <<>>
    /\ d_result = NoReturn

(***************************************************************************)
(* format_content: the render loop                                         *)
(***************************************************************************)

\* File sizes the environment may report through stat().
FileSizes == {50, 100, MAX_FILE_SIZE, MAX_FILE_SIZE + 1}

\* Values of the total budget global: the shipped constant and a small one
\* (the global patched, as a test of the cut-off does).
TotalBudgets == {120, MAX_TOTAL_SIZE}

\* Exceptions the filesystem may raise for a file.
Faults == {"none", "PermissionError", "OSError"}

\* int(file_size * 1.33)
Base64Estimate(file_size) == (file_size * 133) \div 100

\* An estimate that forgets the base64 overhead.
EstimatedSize_NoOverhead(file_size, is_img, inc) == file_size

\* estimated_size as computed at the top of the loop body
EstimatedSize(file_size, is_img, inc) ==
    IF is_img /\ inc THEN Base64Estimate(file_size) ELSE file_size

Part(kind, i) == [kind |-> kind, file |-> i]
Err(kind, i) == [kind |-> kind, file |-> i]

\* The two parts appended before the try block and the separator after it.
FileHeader(i) == <<Part("file_header", i), Part("separator", i)>>
FileTrailer(i) == <<Part("blank", i)>>

Observed(size, is_img, fault) == [size |-> size, is_img |-> is_img, fault |-> fault]

\* State on entry to the loop: total_size = 0, the errors handed over by
\* discover_files (none or one), no per-file part yet.
RenderInit ==
    /\ r_pc = "loop"
    /\ n_files \in 1..MaxFiles
    /\ include_images \in BOOLEAN
    /\ max_total \in TotalBudgets
    /\ all_files = <<>>
    /\ total_size = 0
    /\ content_list = <<>>
    /\ errors \in {<<>>, <<Err("discover", 0)>>}
    /\ RegistryIdle /\ StreamIdle /\ ConsultIdle /\ TokenIdle /\ DiscoverIdle /\ ServerIdle

CurrentFile == Len(all_files) + 1

InLoop == r_pc = "loop" /\ CurrentFile <= n_files

\* An iteration that counts the file's size whatever became of the file.
Iterate_AddsObservedSize(obs, parts, errs, added) ==
    /\ all_files' = Append(all_files, obs)
    /\ content_list' = content_list \o FileHeader(CurrentFile) \o parts
                          \o FileTrailer(CurrentFile)
    /\ errors' = errors \o errs
    /\ total_size' = total_size + (IF obs.size > 0 THEN obs.size ELSE 1)
    /\ UNCHANGED <<r_pc, n_files, include_images, max_total>>
    /\ UNCHANGED nonRenderVars

\* One iteration that ends in an except clause or in the else-branch:
\* appends the parts and the error, adds `added` to total_size, continues.
Iterate(obs, parts, errs, added) ==
    /\ all_files' = Append(all_files, obs)
    /\ content_list' = content_list \o FileHeader(CurrentFile) \o parts
                          \o FileTrailer(CurrentFile)
    /\ errors' = errors \o errs
    /\ total_size' = total_size + added
    /\ UNCHANGED <<r_pc, n_files, include_images, max_total>>
    /\ UNCHANGED nonRenderVars

\* file_path.stat() raises: PermissionError or any other exception.
StatFails ==
    /\ InLoop
    /\ \E is_img \in BOOLEAN, fault \in Faults \ {"none"} :
         LET i == CurrentFile
             kind == IF fault = "PermissionError" THEN "error_permission"
                     ELSE "error_exception"
         IN Iterate(Observed(0, is_img, fault),
                    <<Part(kind, i)>>, <<Err(kind, i)>>, 0)

\* file_size > MAX_FILE_SIZE
FileTooLarge ==
    /\ InLoop
    /\ \E size \in FileSizes, is_img \in BOOLEAN :
         /\ size > MAX_FILE_SIZE
         /\ LET i == CurrentFile
            IN Iterate(Observed(size, is_img, "none"),
                       <<Part("error_too_large", i)>>,
                       <<Err("error_too_large", i)>>, 0)

\* A size check that forgets the file being added.
ExceedsTotal_IgnoresCurrent(size, is_img) == total_size > max_total

\* total_size + estimated_size > MAX_TOTAL_SIZE
ExceedsTotal(size, is_img) ==
    total_size + EstimatedSize(size, is_img, include_images) > max_total

\* The elif branch: one part, one error, break (the separator after the
\* loop body is not appended for this file).
TotalLimitExceeded ==
    /\ InLoop
    /\ \E size \in FileSizes, is_img \in BOOLEAN :
         /\ ~(size > MAX_FILE_SIZE)
         /\ ExceedsTotal(size, is_img)
         /\ LET i == CurrentFile
            IN /\ all_files' = Append(all_files, Observed(size, is_img, "none"))
               /\ content_list' = content_list \o FileHeader(i)
                                     \o <<Part("error_total_limit", i)>>
               /\ errors' = Append(errors, Err("error_total_limit", i))
               /\ r_pc' = "done"
               /\ UNCHANGED <<n_files, include_images, max_total, total_size>>
               /\ UNCHANGED nonRenderVars

Fits(size, is_img) ==
    /\ ~(size > MAX_FILE_SIZE)
    /\ ~ExceedsTotal(size, is_img)

\* Image with include_images: read_bytes + base64, the inner try/except.
IncludeImage ==
    /\ InLoop
    /\ include_images
    /\ \E size \in FileSizes, fault \in Faults :
         /\ Fits(size, TRUE)
         /\ LET i == CurrentFile
            IN IF fault = "none"
               THEN Iterate(Observed(size, TRUE, fault),
                            <<Part("inline_data", i)>>, <<>>,
                            EstimatedSize(size, TRUE, include_images))
               ELSE Iterate(Observed(size, TRUE, fault),
                            <<Part("error_reading_image", i)>>,
                            <<Err("error_reading_image", i)>>, 0)

\* Image without include_images: placeholder note, file_size still added.
ImagePlaceholder ==
    /\ InLoop
    /\ ~include_images
    /\ \E size \in FileSizes :
         /\ Fits(size, TRUE)
         /\ LET i == CurrentFile
            IN Iterate(Observed(size, TRUE, "none"),
                       <<Part("info_image", i)>>, <<>>, size)

\* Text file: read_text, content part, file_size added; a raised exception
\* goes to the outer except clauses.
IncludeText ==
    /\ InLoop
    /\ \E size \in FileSizes, fault \in Faults :
         /\ Fits(size, FALSE)
         /\ LET i == CurrentFile
                kind == IF fault = "PermissionError" THEN "error_permission"
                        ELSE "error_exception"
            IN IF fault = "none"
               THEN Iterate(Observed(size, FALSE, fault),
                            <<Part("text_content", i)>>, <<>>, size)
               ELSE Iterate(Observed(size, FALSE, fault),
                            <<Part(kind, i)>>, <<Err(kind, i)>>, 0)

\* The for loop is exhausted.
LoopEnds ==
    /\ r_pc = "loop"
    /\ CurrentFile > n_files
    /\ r_pc' = "done"
    /\ UNCHANGED <<n_files, include_images, max_total, all_files, total_size,
                   content_list, errors>>
    /\ UNCHANGED nonRenderVars

RenderNext ==
    \/ StatFails
    \/ FileTooLarge
    \/ TotalLimitExceeded
    \/ IncludeImage
    \/ ImagePlaceholder
    \/ IncludeText
    \/ LoopEnds

SpecRender == RenderInit /\ [][RenderNext]_vars

(***************************************************************************)
(* providers/__init__.py: the provider registry                            *)
(***************************************************************************)
BuiltinNames == {"openrouter", "google", "openai"}

\* Provider names a configuration file may declare.
ConfigNames == BuiltinNames \cup {"acme", "beta", "my provider"}

\* One custom_providers entry: its name and whether the environment
\* variable named by authentication.api_key_env is set.
ConfigEntries == [name : ConfigNames, key_set : BOOLEAN]

BuiltinAdapter(name) ==
    CASE name = "openrouter" -> [class |-> "OpenRouterProvider", config |-> "none"]
      [] name = "google" -> [class |-> "GoogleProvider", config |-> "none"]
      [] name = "openai" -> [class |-> "OpenAIProvider", config |-> "none"]

\* ConfigurableOpenAIProvider(config), once constructed.
ConfigurableOpenAIProvider(config) ==
    [class |-> "ConfigurableOpenAIProvider", config |-> config.name]

\* __init__ raises ProviderInitializationError when the key variable is unset.
InitRaises(config) == ~config.key_set

\* A registration that rebuilds the dict instead of adding to it.
register_provider_Rebuilds(P, name, provider_instance) ==
    [n \in {name} |-> provider_instance]

\* _register_provider: PROVIDERS[name] = provider_instance
register_provider(P, name, provider_instance) ==
    [n \in DOMAIN P \cup {name} |->
        IF n = name THEN provider_instance ELSE P[n]]

\* v.replace("-", "").replace("_", "").isalnum()
IsAlnumName(v) == v # "my provider"

\* A validator that forgets the built-in names.
validate_name_NoBuiltinCheck(v) == IsAlnumName(v)

\* CustomProviderConfig.validate_name: TRUE when no ValueError is raised.
validate_name(v) ==
    /\ IsAlnumName(v)
    /\ v \notin {"openrouter", "google", "openai"}

\* ConfigurationFile.validate_unique_provider_names
validate_unique_provider_names(entries) ==
    \A i, j \in DOMAIN entries : entries[i].name = entries[j].name => i = j

\* ConfigLoader.load(): the validated entries, or [] when validation raises.
ConfigLoader_load(entries) ==
    IF /\ \A i \in DOMAIN entries : validate_name(entries[i].name)
       /\ validate_unique_provider_names(entries)
    THEN entries ELSE <<>>

\* A loop whose failed construction also drops the adapters added before it.
register_custom_FailureDropsCustoms(P, config) ==
    IF config.name \in DOMAIN P THEN P
    ELSE IF InitRaises(config)
         THEN [n \in DOMAIN P \cap BuiltinNames |-> P[n]]
    ELSE register_provider(P, config.name, ConfigurableOpenAIProvider(config))

\* One iteration of the loop over custom_configs: skip on a name already
\* registered, skip when the constructor raises, else add the adapter.
register_custom(P, config) ==
    IF config.name \in DOMAIN P THEN P
    ELSE IF InitRaises(config) THEN P
    ELSE register_provider(P, config.name, ConfigurableOpenAIProvider(config))

RECURSIVE SeqsUpTo(_, _)
SeqsUpTo(S, n) ==
    IF n = 0 THEN {<<>>}
    ELSE LET shorter == SeqsUpTo(S, n - 1)
         IN shorter \cup {Append(q, x) : q \in shorter, x \in S}

\* Module body, before the first registration: PROVIDERS = {}.
RegistryInit ==
    /\ g_pc = "openrouter"
    /\ GOOGLE_AVAILABLE \in BOOLEAN
    /\ OPENAI_AVAILABLE \in BOOLEAN
    /\ PROVIDERS = NoProviders
    /\ config_file \in SeqsUpTo(ConfigEntries, MaxCustom)
    /\ custom_configs = <<>>
    /\ reg_log = <<>>
    /\ RenderIdle /\ StreamIdle /\ ConsultIdle /\ TokenIdle /\ DiscoverIdle /\ ServerIdle

\* _register_provider("openrouter", OpenRouterProvider())
RegisterOpenRouter ==
    /\ g_pc = "openrouter"
    /\ PROVIDERS' = register_provider(PROVIDERS, "openrouter", BuiltinAdapter("openrouter"))
    /\ reg_log' = Append(reg_log, "openrouter")
    /\ g_pc' = "google"
    /\ UNCHANGED <<GOOGLE_AVAILABLE, OPENAI_AVAILABLE, config_file, custom_configs>>
    /\ UNCHANGED nonRegistryVars

\* if GOOGLE_AVAILABLE: _register_provider("google", GoogleProvider())
RegisterGoogle ==
    /\ g_pc = "google"
    /\ IF GOOGLE_AVAILABLE
       THEN /\ PROVIDERS' = register_provider(PROVIDERS, "google", BuiltinAdapter("google"))
            /\ reg_log' = Append(reg_log, "google")
       ELSE UNCHANGED <<PROVIDERS, reg_log>>
    /\ g_pc' = "openai"
    /\ UNCHANGED <<GOOGLE_AVAILABLE, OPENAI_AVAILABLE, config_file, custom_configs>>
    /\ UNCHANGED nonRegistryVars

\* if OPENAI_AVAILABLE: _register_provider("openai", OpenAIProvider())
RegisterOpenAI ==
    /\ g_pc = "openai"
    /\ IF OPENAI_AVAILABLE
       THEN /\ PROVIDERS' = register_provider(PROVIDERS, "openai", BuiltinAdapter("openai"))
            /\ reg_log' = Append(reg_log, "openai")
       ELSE UNCHANGED <<PROVIDERS, reg_log>>
    /\ g_pc' = "load"
    /\ UNCHANGED <<GOOGLE_AVAILABLE, OPENAI_AVAILABLE, config_file, custom_configs>>
    /\ UNCHANGED nonRegistryVars

\* _register_custom_providers up to the loop: the import of
\* configurable_openai_provider needs the openai package (ImportError is
\* caught by the outer except); an empty load() returns at once.
LoadCustomConfigs ==
    /\ g_pc = "load"
    /\ LET loaded == IF OPENAI_AVAILABLE THEN ConfigLoader_load(config_file)
                     ELSE <<>>
       IN /\ custom_configs' = loaded
          /\ g_pc' = IF loaded = <<>> THEN "done" ELSE "custom"
    /\ UNCHANGED <<GOOGLE_AVAILABLE, OPENAI_AVAILABLE, PROVIDERS, config_file, reg_log>>
    /\ UNCHANGED nonRegistryVars

\* One iteration of `for config in custom_configs`.
RegisterCustom ==
    /\ g_pc = "custom"
    /\ custom_configs # <<>>
    /\ PROVIDERS' = register_custom(PROVIDERS, Head(custom_configs))
    /\ reg_log' = Append(reg_log, Head(custom_configs).name)
    /\ custom_configs' = Tail(custom_configs)
    /\ g_pc' = IF Tail(custom_configs) = <<>> THEN "done" ELSE "custom"
    /\ UNCHANGED <<GOOGLE_AVAILABLE, OPENAI_AVAILABLE, config_file>>
    /\ UNCHANGED nonRegistryVars

RegistryNext ==
    \/ RegisterOpenRouter
    \/ RegisterGoogle
    \/ RegisterOpenAI
    \/ LoadCustomConfigs
    \/ RegisterCustom

SpecRegistry == RegistryInit /\ [][RegistryNext]_vars

\* Registration calls in any order and any number of times, each name with
\* one adapter: built-ins through _register_provider, declared providers
\* through the loop body of _register_custom_providers.
CustomCatalog ==
    {[name |-> "acme", key_set |-> TRUE], [name |-> "beta", key_set |-> FALSE]}

AnyOrderNames == BuiltinNames \cup {c.name : c \in CustomCatalog}

AnyOrderInit ==
    /\ g_pc = "anyorder"
    /\ GOOGLE_AVAILABLE = TRUE /\ OPENAI_AVAILABLE = TRUE
    /\ PROVIDERS = NoProviders
    /\ config_file = <<>> /\ custom_configs = <<>>
    /\ reg_log = <<>>
    /\ RenderIdle /\ StreamIdle /\ ConsultIdle /\ TokenIdle /\ DiscoverIdle /\ ServerIdle

RegisterBuiltinAnyOrder ==
    /\ g_pc = "anyorder"
    /\ Len(reg_log) < MaxRegistrations
    /\ \E name \in BuiltinNames :
         /\ PROVIDERS' = register_provider(PROVIDERS, name, BuiltinAdapter(name))
         /\ reg_log' = Append(reg_log, name)
    /\ UNCHANGED <<g_pc, GOOGLE_AVAILABLE, OPENAI_AVAILABLE, config_file, custom_configs>>
    /\ UNCHANGED nonRegistryVars

RegisterCustomAnyOrder ==
    /\ g_pc = "anyorder"
    /\ Len(reg_log) < MaxRegistrations
    /\ \E config \in CustomCatalog :
         /\ PROVIDERS' = register_custom(PROVIDERS, config)
         /\ reg_log' = Append(reg_log, config.name)
    /\ UNCHANGED <<g_pc, GOOGLE_AVAILABLE, OPENAI_AVAILABLE, config_file, custom_configs>>
    /\ UNCHANGED nonRegistryVars

AnyOrderNext == RegisterBuiltinAnyOrder \/ RegisterCustomAnyOrder

SpecRegisterAnyOrder == AnyOrderInit /\ [][AnyOrderNext]_vars

(***************************************************************************)
(* OpenRouterProvider.call_llm: the streaming request                      *)
(***************************************************************************)
\* Lines of the response body.  A data line carries [DONE], text that is
\* no JSON, or a JSON chunk; a chunk is described by what the loop reads
\* of it: whether "choices" is present and non-empty, whether the first
\* choice's delta is a dict, delta.content, and finish_reason.
BlankLine == [line |-> "blank", data |-> "na", choices |-> FALSE,
              delta_ok |-> TRUE, content |-> EmptyText, finish |-> "None"]
CommentLine == [line |-> "comment", data |-> "na", choices |-> FALSE,
                delta_ok |-> TRUE, content |-> EmptyText, finish |-> "None"]
DoneLine == [line |-> "data", data |-> "[DONE]", choices |-> FALSE,
             delta_ok |-> TRUE, content |-> EmptyText, finish |-> "None"]
MalformedLine == [line |-> "data", data |-> "malformed", choices |-> FALSE,
                  delta_ok |-> TRUE, content |-> EmptyText, finish |-> "None"]
NoChoicesChunk == [line |-> "data", data |-> "json", choices |-> FALSE,
                   delta_ok |-> TRUE, content |-> EmptyText, finish |-> "None"]
NullDeltaChunk == [line |-> "data", data |-> "json", choices |-> TRUE,
                   delta_ok |-> FALSE, content |-> EmptyText, finish |-> "None"]
ContentChunk(text) == [line |-> "data", data |-> "json", choices |-> TRUE,
                       delta_ok |-> TRUE, content |-> text, finish |-> "None"]
FinishChunk(reason) == [line |-> "data", data |-> "json", choices |-> TRUE,
                        delta_ok |-> TRUE, content |-> EmptyText, finish |-> reason]

TextAB == <<Run("a", 1), Run("b", 1)>>
TextCD == <<Run("c", 1), Run("d", 1)>>
\* A delta of 60,000 characters: two of them pass MAX_RESPONSE_SIZE.
TextLong == <<Run("x", 60000)>>

SseLines ==
    {BlankLine, CommentLine, DoneLine, MalformedLine, NoChoicesChunk,
     NullDeltaChunk, ContentChunk(TextAB), ContentChunk(TextCD),
     ContentChunk(TextLong), FinishChunk("length")}

RECURSIVE JoinAll(_)
\* "".join(collected_content)
JoinAll(chunks) ==
    IF chunks = <<>> THEN EmptyText ELSE Cat(chunks[1], JoinAll(Tail(chunks)))

StepResult(collected, finish, outcome) ==
    [collected |-> collected, finish |-> finish, outcome |-> outcome]

\* A loop body that reads on after [DONE].
HandleLine_NoBreak(collected, finish, l) ==
    IF l.line = "data" /\ l.data = "json" /\ l.choices /\ l.delta_ok
    THEN StepResult(IF l.content # EmptyText THEN Append(collected, l.content)
                    ELSE collected,
                    IF l.finish # "None" THEN l.finish ELSE finish, "continue")
    ELSE StepResult(collected, finish, "continue")

\* The body of `async for line in response.aiter_lines()` for one line:
\* the new collected_content and finish_reason, and whether the loop
\* continues, breaks, or an exception leaves it.
HandleLine(collected, finish, l) ==
    IF l.line = "blank" THEN StepResult(collected, finish, "continue")
    ELSE IF l.line # "data" THEN StepResult(collected, finish, "continue")
    ELSE IF l.data = "[DONE]" THEN StepResult(collected, finish, "break")
    ELSE IF l.data = "malformed" THEN StepResult(collected, finish, "continue")
    ELSE IF ~l.choices THEN StepResult(collected, finish, "continue")
    ELSE IF ~l.delta_ok THEN StepResult(collected, finish, "raise")
    ELSE StepResult(IF l.content # EmptyText THEN Append(collected, l.content)
                    ELSE collected,
                    IF l.finish # "None" THEN l.finish ELSE finish, "continue")

\* The third element of the success return.
ReasoningReturned(mode, budget) ==
    IF mode /\ budget.kind \in {"effort_high", "effort_medium"}
    THEN SomeInt(IF budget.kind = "effort_high" THEN 0 - 1 ELSE 0 - 2)
    ELSE IF mode /\ budget.kind \in {"enabled_high", "enabled_low"}
    THEN SomeInt(IF budget.kind = "enabled_high" THEN 0 - 3 ELSE 0 - 4)
    ELSE IF mode
    THEN SomeInt(IF budget.kind = "int" THEN budget.n ELSE 0)
    ELSE NoneInt

Failure(msg) == [response |-> EmptyText, error |-> msg, reasoning |-> NoneInt]

\* After the loop: join, the empty-response check, process_llm_response.
AfterStream(collected, mode, budget) ==
    LET full_response == JoinAll(collected)
    IN IF full_response = EmptyText
       THEN Failure("No content received from API (empty response)")
       ELSE [response |-> process_llm_response(full_response),
             error |-> "None",
             reasoning |-> ReasoningReturned(mode, budget)]

\* The request is about to be sent: collected_content = [], finish_reason = None.
StreamInit ==
    /\ s_pc = "request"
    /\ sse_lines \in SeqsUpTo(SseLines, MaxFrames)
    /\ s_next = 1
    /\ thinking_mode \in BOOLEAN
    /\ thinking_budget \in ThinkingBudgets
    /\ collected_content = <<>>
    /\ finish_reason = "None"
    /\ s_result = NoResult
    /\ RenderIdle /\ RegistryIdle /\ ConsultIdle /\ TokenIdle /\ DiscoverIdle /\ ServerIdle

StreamReturn(result) ==
    /\ s_pc' = "done"
    /\ s_result' = result
    /\ UNCHANGED <<sse_lines, s_next, thinking_mode, thinking_budget,
                   collected_content, finish_reason>>
    /\ UNCHANGED nonStreamVars

\* response.status_code != 200
StatusNot200 ==
    /\ s_pc = "request"
    /\ StreamReturn(Failure("API error"))

\* response.status_code == 200: the loop starts.
Status200 ==
    /\ s_pc = "request"
    /\ s_pc' = "reading"
    /\ UNCHANGED <<sse_lines, s_next, thinking_mode, thinking_budget,
                   collected_content, finish_reason, s_result>>
    /\ UNCHANGED nonStreamVars

\* One line arrives and the loop body runs on it.
ReadLine ==
    /\ s_pc = "reading"
    /\ s_next <= Len(sse_lines)
    /\ LET r == HandleLine(collected_content, finish_reason, sse_lines[s_next])
       IN CASE r.outcome = "continue" ->
                 /\ collected_content' = r.collected
                 /\ finish_reason' = r.finish
                 /\ s_next' = s_next + 1
                 /\ UNCHANGED <<s_pc, sse_lines, thinking_mode, thinking_budget, s_result>>
                 /\ UNCHANGED nonStreamVars
            [] r.outcome = "break" ->
                 StreamReturn(AfterStream(collected_content, thinking_mode,
                                          thinking_budget))
            [] r.outcome = "raise" ->
                 StreamReturn(Failure("Error calling API"))

\* The body ends without [DONE]: the loop is exhausted.
StreamEnds ==
    /\ s_pc = "reading"
    /\ s_next > Len(sse_lines)
    /\ StreamReturn(AfterStream(collected_content, thinking_mode, thinking_budget))

\* httpx.TimeoutException or another transport exception while connecting
\* or reading: what was collected is dropped.
TransportFails ==
    /\ s_pc \in {"request", "reading"}
    /\ \E msg \in {"Request timed out", "Error calling API"} :
         StreamReturn(Failure(msg))

StreamNext ==
    \/ StatusNot200
    \/ Status200
    \/ ReadLine
    \/ StreamEnds
    \/ TransportFails

SpecStream == StreamInit /\ [][StreamNext]_vars

(***************************************************************************)
(* consultation.py: one consultation request                               *)
(***************************************************************************)
DEFAULT_CONTEXT_LENGTH == 128000

\* Model strings, each written as the list model.split("|").
ModelSpecs ==
    { <<"m1">>, <<"m1", "thinking">>, <<"m1", "thinking=5000">>,
      <<"m1", "thinking=abc">>, <<"m1", "128k">>,
      <<"m1", "128k", "thinking">>, <<"m1", "abc">>,
      <<"m1", "thinking=0">>, <<"m1", "thinking=-5">>, <<"m1", "thinking=">> }

\* Provider names a request may carry.
RequestedProviders == {"openrouter", "google", "openai", "acme", "nosuch"}

\* total_size values format_content may return for a non-empty file set.
CollectedSizes == {0, 150}

\* part.startswith("thinking"): the text "|thinking" occurs at this part.
StartsWithThinking(part) ==
    part \in {"thinking", "thinking=5000", "thinking=abc", "thinking=0",
              "thinking=-5", "thinking="}

\* What follows "thinking" in the part.
AfterThinking(part) ==
    CASE part = "thinking" -> <<>>
      [] part = "thinking=5000" -> <<"=", "5", "0", "0", "0">>
      [] part = "thinking=abc" -> <<"=", "a", "b", "c">>
      [] part = "thinking=0" -> <<"=", "0">>
      [] part = "thinking=-5" -> <<"=", "-", "5">>
      [] part = "thinking=" -> <<"=">>
      [] OTHER -> <<>>

\* int(text) on a sequence of characters: an optional sign and at least one
\* decimal digit give the value, anything else raises ValueError (None here).
DigitValue ==
    ("0" :> 0) @@ ("1" :> 1) @@ ("2" :> 2) @@ ("3" :> 3) @@ ("4" :> 4) @@
    ("5" :> 5) @@ ("6" :> 6) @@ ("7" :> 7) @@ ("8" :> 8) @@ ("9" :> 9)

RECURSIVE DecimalValue(_)
DecimalValue(digits) ==
    IF digits = <<>> THEN 0
    ELSE DecimalValue(SubSeq(digits, 1, Len(digits) - 1)) * 10
            + DigitValue[digits[Len(digits)]]

IntLiteral(chars) ==
    LET signed == chars # <<>> /\ chars[1] \in {"-", "+"}
        digits == IF signed THEN Tail(chars) ELSE chars
    IN IF digits = <<>> \/ \E i \in DOMAIN digits : digits[i] \notin DOMAIN DigitValue
       THEN NoneInt
       ELSE SomeInt(IF signed /\ chars[1] = "-" THEN 0 - DecimalValue(digits)
                    ELSE DecimalValue(digits))

\* int(parts[1][1:]) under `if parts[1].startswith("=")`; a ValueError
\* leaves custom_tokens at None.
ThinkingTokens_AcceptsNegative(suffix) ==
    IF suffix = <<>> \/ suffix[1] # "=" THEN NoneInt ELSE IntLiteral(Tail(suffix))
ThinkingTokens(suffix) ==
    IF suffix = <<>> \/ suffix[1] # "=" THEN NoneInt
    ELSE LET custom_tokens == IntLiteral(Tail(suffix))
         IN IF custom_tokens.isNone THEN NoneInt
            ELSE IF custom_tokens.v < 0 THEN NoneInt
            ELSE custom_tokens

\* parse_model_thinking(model_spec) -> (model_name, custom_tokens)
parse_model_thinking(model_spec) ==
    LET at == {i \in 2..Len(model_spec) : StartsWithThinking(model_spec[i])}
    IN IF at = {}
       THEN [model_name |-> model_spec, custom_tokens |-> NoneInt]
       ELSE LET i == CHOOSE k \in at : \A j \in at : k <= j
                \* text up to the next "|thinking" is parts[1] of the split
                followed == i < Len(model_spec) /\ ~StartsWithThinking(model_spec[i + 1])
            IN [model_name |-> SubSeq(model_spec, 1, i - 1),
                custom_tokens |-> IF followed THEN NoneInt
                                  ELSE ThinkingTokens(AfterThinking(model_spec[i]))]

\* model.endswith("|thinking")
EndsWithThinking(model_spec) ==
    Len(model_spec) > 1 /\ model_spec[Len(model_spec)] = "thinking"

\* effective_thinking_mode in consultation_impl
EffectiveThinkingMode(model_spec) ==
    ~parse_model_thinking(model_spec).custom_tokens.isNone \/ EndsWithThinking(model_spec)

\* custom_thinking_tokens as the thinking_budget argument of call_llm
ThinkingBudgetArg(model_spec) ==
    LET t == parse_model_thinking(model_spec).custom_tokens
    IN IF t.isNone THEN BudgetNone ELSE BudgetTokens(t.v)

\* The context parse `int(float(s[:-1]) * 1000)` / `int(s)`: the value, or
\* None when it raises ValueError.
ParseContext(context_str) ==
    IF context_str = "128k" THEN SomeInt(128000) ELSE NoneInt

\* model_for_info in consultation_impl
ModelForInfo(prov, model_spec) ==
    IF prov = "openai" /\ Len(model_spec) > 1
    THEN IF Len(model_spec) >= 3 /\ model_spec[3] = "thinking"
         THEN SubSeq(model_spec, 1, 2)
         ELSE IF Len(model_spec) = 2 /\ model_spec[2] # "thinking"
         THEN model_spec
         ELSE <<model_spec[1]>>
    ELSE <<model_spec[1]>>

\* A lookup that falls back to the OpenRouter adapter.
PROVIDERS_get_DefaultsToOpenRouter(P, name) ==
    IF name \in DOMAIN P THEN [found |-> TRUE, adapter |-> P[name]]
    ELSE [found |-> TRUE, adapter |-> P["openrouter"]]

\* PROVIDERS.get(provider)
PROVIDERS_get(P, name) ==
    IF name \in DOMAIN P THEN [found |-> TRUE, adapter |-> P[name]]
    ELSE [found |-> FALSE, adapter |-> [class |-> "None", config |-> "none"]]

\* get_model_context_info up to its await: what it raises or returns
\* without calling the adapter, or that it calls adapter.get_model_info.
ContextInfoStep_OpenAIDefaults(model_name, prov, P) ==
    LET has_spec == prov = "openai" /\ Len(model_name) > 1
                    /\ model_name[2] # "thinking"
        specified_context == IF has_spec THEN ParseContext(model_name[2]) ELSE NoneInt
    IN IF has_spec /\ specified_context.isNone
       THEN [kind |-> "ValueError", tag |-> "invalid_literal", context |-> 0]
       ELSE IF ~PROVIDERS_get(P, prov).found
       THEN [kind |-> "return", tag |-> "default", context |-> DEFAULT_CONTEXT_LENGTH]
       ELSE IF prov = "openai"
       THEN [kind |-> "return", tag |-> "openai",
             context |-> IF specified_context.isNone THEN DEFAULT_CONTEXT_LENGTH
                         ELSE specified_context.v]
       ELSE [kind |-> "await", tag |-> "get_model_info", context |-> 0]
ContextInfoStep(model_name, prov, P) ==
    LET has_spec == prov = "openai" /\ Len(model_name) > 1
                    /\ model_name[2] # "thinking"
        specified_context == IF has_spec THEN ParseContext(model_name[2]) ELSE NoneInt
    IN IF has_spec /\ specified_context.isNone
       THEN [kind |-> "ValueError", tag |-> "invalid_literal", context |-> 0]
       ELSE IF ~PROVIDERS_get(P, prov).found
       THEN [kind |-> "return", tag |-> "default", context |-> DEFAULT_CONTEXT_LENGTH]
       ELSE IF prov = "openai"
       THEN IF specified_context.isNone \/ specified_context.v = 0
            THEN [kind |-> "ValueError", tag |-> "openai_requires_context", context |-> 0]
            ELSE [kind |-> "return", tag |-> "openai", context |-> specified_context.v]
       ELSE [kind |-> "await", tag |-> "get_model_info", context |-> 0]

\* THINKING_LIMITS
ThinkingLimit(kind, n) == [kind |-> kind, n |-> n]
THINKING_LIMITS ==
    [name \in {"openai/gpt-5.2", "google/gemini-3-pro-preview",
               "google/gemini-3-flash-preview", "google/gemini-2.5-pro",
               "google/gemini-2.5-flash", "anthropic/claude-sonnet-4.5",
               "anthropic/claude-opus-4.5", "x-ai/grok-4", "x-ai/grok-4-fast"} |->
        CASE name = "openai/gpt-5.2" -> ThinkingLimit("effort", 0)
          [] name \in {"google/gemini-3-pro-preview", "google/gemini-3-flash-preview"} ->
                ThinkingLimit("enabled", 0)
          [] name = "google/gemini-2.5-pro" -> ThinkingLimit("int", 32768)
          [] name = "google/gemini-2.5-flash" -> ThinkingLimit("int", 24576)
          [] name \in {"anthropic/claude-sonnet-4.5", "anthropic/claude-opus-4.5"} ->
                ThinkingLimit("int", 31999)
          [] OTHER -> ThinkingLimit("int", 32000)]

\* get_thinking_budget(model_name, mode)
get_thinking_budget_NoFastCheck(model_name, mode) ==
    IF model_name \notin DOMAIN THINKING_LIMITS THEN BudgetNone
    ELSE LET limit == THINKING_LIMITS[model_name]
         IN IF limit.kind = "effort"
            THEN BudgetMarker(IF mode = "mid" THEN "effort_medium" ELSE "effort_high")
            ELSE IF limit.kind = "enabled"
            THEN BudgetMarker(IF mode = "mid" THEN "enabled_low" ELSE "enabled_high")
            ELSE IF mode = "mid" THEN BudgetTokens(limit.n \div 2)
            ELSE IF mode = "think" THEN BudgetTokens(limit.n)
            ELSE BudgetNone
get_thinking_budget(model_name, mode) ==
    IF mode = "fast" THEN BudgetNone
    ELSE IF model_name \notin DOMAIN THINKING_LIMITS THEN BudgetNone
    ELSE LET limit == THINKING_LIMITS[model_name]
         IN IF limit.kind = "effort"
            THEN BudgetMarker(IF mode = "mid" THEN "effort_medium" ELSE "effort_high")
            ELSE IF limit.kind = "enabled"
            THEN BudgetMarker(IF mode = "mid" THEN "enabled_low" ELSE "enabled_high")
            ELSE IF mode = "mid" THEN BudgetTokens(limit.n \div 2)
            ELSE IF mode = "think" THEN BudgetTokens(limit.n)
            ELSE BudgetNone

\* The registry after `import consult7.providers` has run to its end.
RECURSIVE RegisterAll(_, _)
RegisterAll(P, configs) ==
    IF configs = <<>> THEN P
    ELSE RegisterAll(register_custom(P, Head(configs)), Tail(configs))

ImportedRegistry(google_available, openai_available, file) ==
    LET P1 == register_provider(NoProviders, "openrouter", BuiltinAdapter("openrouter"))
        P2 == IF google_available
              THEN register_provider(P1, "google", BuiltinAdapter("google")) ELSE P1
        P3 == IF openai_available
              THEN register_provider(P2, "openai", BuiltinAdapter("openai")) ELSE P2
    IN RegisterAll(P3, IF openai_available THEN ConfigLoader_load(file) ELSE <<>>)

\* Configurations of the declared provider "acme": feature_support.thinking_mode
\* and the names of its models.
AcmeConfigs ==
    [thinking_mode : BOOLEAN,
     models : {{<<"m1">>}, {<<"m1">>, <<"m1", "thinking">>}}]

FileCounts == {0, 2}

\* context_length a vendor or a configuration reports for a known model.
ReportedContextLength == 200000

\* usage.reasoning_tokens of a completion, when the vendor reports it.
ReportedReasoningTokens == 64

\* What the vendor answers to the completion request.
VendorAnswer(kind, content, reasoning) ==
    [kind |-> kind, content |-> content, reasoning |-> reasoning]

VendorAnswers(class) ==
    {VendorAnswer("exception", EmptyText, NoneInt)}
    \cup {VendorAnswer("content", t, NoneInt) : t \in {EmptyText, TextAB}}
    \cup (IF class = "OpenRouterProvider"
          THEN {VendorAnswer("status_error", EmptyText, NoneInt)}
          ELSE {VendorAnswer("content", NoneText, NoneInt)})
    \cup (IF class \in {"OpenAIProvider", "ConfigurableOpenAIProvider"}
          THEN {VendorAnswer("no_choices", EmptyText, NoneInt)} ELSE {})
    \cup (IF class = "ConfigurableOpenAIProvider"
          THEN {VendorAnswer("content", TextAB, SomeInt(ReportedReasoningTokens))}
          ELSE {})

ThinkingNote == <<Run("[Note: thinking mode]", 1)>>

\* GoogleProvider.call_llm: thinking_budget_to_use, where the second
\* argument handed to get_thinking_budget is custom_thinking (an int or
\* None, none of the mode names).
GoogleThinkingBudget(model_spec) ==
    LET parsed == parse_model_thinking(model_spec)
        name == IF Len(parsed.model_name) = 1 THEN parsed.model_name[1] ELSE "other"
    IN IF EffectiveThinkingMode(model_spec)
       THEN get_thinking_budget(name, "custom_thinking")
       ELSE BudgetTokens(0)

\* GoogleProvider.call_llm, after generate_content returned or raised.
GoogleResult(model_spec, answer) ==
    LET budget == GoogleThinkingBudget(model_spec)
        unknown == EffectiveThinkingMode(model_spec) /\ budget = BudgetNone
        mode == EffectiveThinkingMode(model_spec) /\ ~unknown
    IN IF answer.kind # "content" THEN Failure("Error calling Google AI")
       ELSE [response |-> Cat(process_llm_response(answer.content),
                              IF unknown THEN ThinkingNote ELSE EmptyText),
             error |-> "None",
             reasoning |-> IF mode THEN SomeInt(budget.n) ELSE NoneInt]

\* OpenAIProvider.call_llm, after chat.completions.create returned or raised;
\* choices[0] of an empty list raises IndexError into the except clause.
OpenAIResult(model_spec, answer) ==
    LET has_thinking == \E i \in DOMAIN model_spec : model_spec[i] = "thinking"
    IN IF answer.kind # "content" THEN Failure("Error calling OpenAI")
       ELSE [response |-> Cat(process_llm_response(answer.content),
                              IF has_thinking THEN ThinkingNote ELSE EmptyText),
             error |-> "None",
             reasoning |-> NoneInt]

\* OpenAIProvider.call_llm: specified_context from the first part after the
\* model name that is neither empty nor "thinking"; the parse is outside
\* any try block.
OpenAIContext(model_spec) ==
    LET at == {i \in 2..Len(model_spec) : model_spec[i] # "thinking"}
    IN IF at = {} THEN "None"
       ELSE LET first == CHOOSE k \in at : \A j \in at : k <= j
                parsed == ParseContext(model_spec[first])
            IN IF parsed.isNone THEN "ValueError"
               ELSE IF parsed.v = 0 THEN "None" ELSE "specified"

\* ConfigurableOpenAIProvider.call_llm, after chat.completions.create.
ConfigurableResult(mode, answer) ==
    CASE answer.kind = "content" ->
            [response |-> process_llm_response(answer.content),
             error |-> "None",
             reasoning |-> IF mode THEN answer.reasoning ELSE NoneInt]
      [] answer.kind = "no_choices" -> Failure("Empty response received")
      [] OTHER -> Failure("API call failed")

\* OpenRouterProvider.call_llm, after the streaming request.
OpenRouterResult(mode, budget, answer) ==
    CASE answer.kind = "content" ->
            AfterStream(IF answer.content = EmptyText THEN <<>> ELSE <<answer.content>>,
                        mode, budget)
      [] answer.kind = "status_error" -> Failure("API error")
      [] OTHER -> Failure("Error calling API")

\* What call_llm of the adapter returns for the vendor's answer.
CompletionResult(class, model_spec, answer) ==
    CASE class = "OpenRouterProvider" ->
            OpenRouterResult(EffectiveThinkingMode(model_spec),
                             ThinkingBudgetArg(model_spec), answer)
      [] class = "GoogleProvider" -> GoogleResult(model_spec, answer)
      [] class = "OpenAIProvider" -> OpenAIResult(model_spec, answer)
      [] OTHER -> ConfigurableResult(EffectiveThinkingMode(model_spec), answer)

\* The "Content too large" returns: OpenRouter and Google return 0 as the
\* budget, OpenAI returns None.
TooLarge(class) ==
    [response |-> EmptyText, error |-> "Content too large",
     reasoning |-> IF class \in {"GoogleProvider", "OpenRouterProvider"}
                   THEN SomeInt(0) ELSE NoneInt]

\* The token_info suffix consultation_impl derives from thinking_budget_used.
BudgetInfo(reasoning) ==
    IF reasoning.isNone THEN "none"
    ELSE IF reasoning.v = 0 - 1 THEN "effort_high"
    ELSE IF reasoning.v > 0 THEN "budget"
    ELSE "disabled_or_not_applicable"

\* What consultation_impl returns, or the exception that leaves it.
Message(tag, files, bytes, response, info) ==
    [kind |-> "returned", tag |-> tag, files |-> files, bytes |-> bytes,
     response |-> response, budget_info |-> info]

Raised(exception) ==
    [kind |-> "raised", tag |-> exception, files |-> NoneInt, bytes |-> NoneInt,
     response |-> EmptyText, budget_info |-> "none"]

TimeoutMessage ==
    Message("timeout", SomeInt(all_files_count), SomeInt(c_total_size), EmptyText, "none")

\* consultation_impl is called; the registry is the one the import built.
ConsultInit ==
    /\ c_pc = "start"
    /\ provider \in RequestedProviders
    /\ model \in ModelSpecs
    /\ api_key \in BOOLEAN
    /\ c_include_images \in BOOLEAN
    /\ all_files_count \in FileCounts
    /\ discover_errors \in BOOLEAN
    /\ c_total_size = 0
    /\ GOOGLE_AVAILABLE \in BOOLEAN
    /\ OPENAI_AVAILABLE \in BOOLEAN
    /\ config_file \in {<<>>, <<[name |-> "acme", key_set |-> TRUE]>>}
    /\ acme_config \in IF config_file = <<>>
                       THEN {[thinking_mode |-> FALSE, models |-> {}]}
                       ELSE AcmeConfigs
    /\ PROVIDERS = ImportedRegistry(GOOGLE_AVAILABLE, OPENAI_AVAILABLE, config_file)
    /\ g_pc = "done" /\ custom_configs = <<>> /\ reg_log = <<>>
    /\ model_info = NoModelInfo /\ content_to_send = "unset"
    /\ request_text = "unset"
    /\ adapter_calls = <<>> /\ deadline = "unarmed"
    /\ vendor_response = NoVendorResponse
    /\ llm_result = NoResult /\ c_result = NoOutcome
    /\ RenderIdle /\ StreamIdle /\ TokenIdle /\ DiscoverIdle /\ ServerIdle

\* The class of provider_instance.
AdapterClass == PROVIDERS_get(PROVIDERS, provider).adapter.class

\* What the request an adapter builds holds of the file text it was handed.
\* GoogleProvider.call_llm keeps the parts of its argument that have a
\* "text" key: iterating a str yields one-character strings, and
\* `"text" in part` is then a substring test that is false.  The other
\* adapters interpolate the argument into the user message: a str as it is,
\* a list as its repr.
RequestFileText(class, shape) ==
    IF class = "GoogleProvider"
    THEN IF shape = "parts" THEN "verbatim" ELSE "dropped"
    ELSE IF shape = "str" THEN "verbatim" ELSE "repr"

ConsultStep(pc, info, content, calls, timer, answer, triple, outcome) ==
    /\ c_pc' = pc
    /\ model_info' = info
    /\ content_to_send' = content
    /\ request_text' = IF pc = "llm_completion" /\ c_pc # "llm_completion"
                       THEN RequestFileText(AdapterClass, content)
                       ELSE request_text
    /\ adapter_calls' = calls
    /\ deadline' = timer
    /\ vendor_response' = answer
    /\ llm_result' = triple
    /\ c_result' = outcome
    /\ UNCHANGED <<provider, model, api_key, c_include_images, all_files_count,
                   discover_errors, acme_config>>
    /\ UNCHANGED nonConsultVars

\* `return ...` of consultation_impl outside the deadline scope.
Return(outcome) ==
    /\ ConsultStep("done", model_info, content_to_send, adapter_calls, deadline,
                   vendor_response, llm_result, outcome)
    /\ UNCHANGED c_total_size

\* discover_files, the two early returns, format_content.
Discover ==
    /\ c_pc = "start"
    /\ IF all_files_count = 0 /\ discover_errors
       THEN Return(Message("no_files_found_errors", NoneInt, NoneInt, EmptyText, "none"))
       ELSE IF all_files_count = 0
       THEN Return(Message("no_files_matching", NoneInt, NoneInt, EmptyText, "none"))
       ELSE /\ \E size \in CollectedSizes : c_total_size' = size
            /\ ConsultStep("model_info", model_info, content_to_send, adapter_calls,
                           deadline, vendor_response, llm_result, c_result)

\* model_for_info, then get_model_context_info up to its await.
GetModelContextInfo ==
    /\ c_pc = "model_info"
    /\ UNCHANGED c_total_size
    /\ LET step == ContextInfoStep(ModelForInfo(provider, model), provider, PROVIDERS)
       IN CASE step.kind = "ValueError" ->
                 ConsultStep("done", model_info, content_to_send, adapter_calls,
                             deadline, vendor_response, llm_result,
                             Message(step.tag, NoneInt, NoneInt, EmptyText, "none"))
            [] step.kind = "return" ->
                 ConsultStep("lookup",
                             [context_length |-> step.context, supports_images |-> FALSE,
                              adapter_info |-> "not_called", fetch |-> "none"],
                             content_to_send, adapter_calls, deadline,
                             vendor_response, llm_result, c_result)
            [] step.kind = "await" ->
                 ConsultStep("info_await", model_info, content_to_send,
                             Append(adapter_calls, "get_model_info"), deadline,
                             vendor_response, llm_result, c_result)

\* What the metadata request of an adapter can meet; an authentication
\* failure is a status other than 200 (OpenRouter) or an SDK exception (Google).
MetadataFetches == {"ok", "network_error", "status_not_200", "not_listed"}

\* The adapters that send a request, and only with what they need to send it.
FetchesOf(class, key) ==
    IF class = "GoogleProvider" \/ (class = "OpenRouterProvider" /\ key)
    THEN MetadataFetches ELSE {"none"}

\* adapter.get_model_info(model_name, api_key): a dict, or None.
get_model_info_Propagates(class, fetch, configured) ==
    CASE class \in {"OpenRouterProvider", "GoogleProvider"} ->
            IF fetch = "ok" THEN "dict"
            ELSE IF fetch = "network_error" THEN "raised" ELSE "None"
      [] class = "OpenAIProvider" -> "None"
      [] OTHER -> IF configured THEN "dict" ELSE "None"
get_model_info(class, fetch, configured) ==
    CASE class = "OpenRouterProvider" -> IF fetch = "ok" THEN "dict" ELSE "None"
      [] class = "GoogleProvider" ->
            IF ~GOOGLE_AVAILABLE THEN "None"
            ELSE IF fetch = "ok" THEN "dict" ELSE "None"
      [] class = "OpenAIProvider" -> "None"
      [] OTHER -> IF configured THEN "dict" ELSE "None"

\* adapter.get_model_info returns the model's info or None; a configured
\* adapter answers from its configuration.  None becomes a dict without
\* context_length, which then gets DEFAULT_CONTEXT_LENGTH; an exception
\* other than ValueError gives the default dict of the except clause.
ModelInfoReturns ==
    /\ c_pc = "info_await"
    /\ UNCHANGED c_total_size
    /\ \E fetch \in FetchesOf(AdapterClass, api_key) :
         LET info == get_model_info(AdapterClass, fetch,
                                    ModelForInfo(provider, model) \in acme_config.models)
         IN ConsultStep("lookup",
                        [context_length |-> IF info = "dict" THEN ReportedContextLength
                                            ELSE DEFAULT_CONTEXT_LENGTH,
                         supports_images |-> provider = "google" /\ info # "raised",
                         adapter_info |-> info, fetch |-> fetch],
                        content_to_send, adapter_calls, deadline,
                        vendor_response, llm_result, c_result)

\* provider_instance = PROVIDERS.get(provider); when it is found,
\* parse_model_thinking, then `async with asyncio.timeout(...)` is entered
\* and content_to_send is chosen.
LookupProvider ==
    /\ c_pc = "lookup"
    /\ UNCHANGED c_total_size
    /\ IF ~PROVIDERS_get(PROVIDERS, provider).found
       THEN ConsultStep("done", model_info, content_to_send, adapter_calls, deadline,
                        vendor_response, llm_result,
                        Message("unknown_provider", NoneInt, NoneInt, EmptyText, "none"))
       ELSE ConsultStep("call", model_info,
                        IF model_info.supports_images /\ c_include_images
                        THEN "parts" ELSE "str",
                        adapter_calls, "armed", vendor_response, llm_result, c_result)

\* call_llm returned its triple without suspending again: the deadline
\* scope is left, late when the deadline passed while the loop was blocked.
CallReturns_RetriesOnError(triple, answer) ==
    IF triple.error # "None" /\ Len(adapter_calls) < 4
    THEN ConsultStep("call", model_info, content_to_send, adapter_calls, deadline,
                     answer, triple, c_result)
    ELSE ConsultStep("post", model_info, content_to_send, adapter_calls,
                     IF deadline = "passed" THEN "exited_late" ELSE "exited",
                     answer, triple, c_result)

CallReturns(triple, answer) ==
    ConsultStep("post", model_info, content_to_send, adapter_calls,
                IF deadline = "passed" THEN "exited_late" ELSE "exited",
                answer, triple, c_result)

\* call_llm is called and runs to its first network operation, to an early
\* return, or to the FeatureNotSupportedError it re-raises.
CallLLM ==
    /\ c_pc = "call"
    /\ UNCHANGED c_total_size
    /\ LET calls == Append(adapter_calls, "call_llm")
           Goto(pc) == ConsultStep(pc, model_info, content_to_send, calls, deadline,
                                   vendor_response, llm_result, c_result)
           Early(triple) == ConsultStep("post", model_info, content_to_send, calls,
                                        "exited", vendor_response, triple, c_result)
       IN CASE AdapterClass = "OpenRouterProvider" ->
                 IF ~api_key THEN Early(Failure("No API key provided"))
                 ELSE Goto("llm_info_await")
            [] AdapterClass = "GoogleProvider" ->
                 IF ~api_key THEN Early(Failure("No API key provided"))
                 ELSE Goto("llm_info_block")
            [] AdapterClass = "OpenAIProvider" ->
                 IF ~api_key THEN Early(Failure("No API key provided"))
                 ELSE IF OpenAIContext(model) = "ValueError"
                 THEN ConsultStep("done", model_info, content_to_send, calls, "exited",
                                  vendor_response, llm_result, Raised("ValueError"))
                 ELSE IF OpenAIContext(model) = "None"
                 THEN Early(Failure("OpenAI models require context length specification"))
                 ELSE \/ Early(TooLarge(AdapterClass))
                      \/ Goto("llm_completion")
            [] AdapterClass = "ConfigurableOpenAIProvider" ->
                 IF model \notin acme_config.models
                 THEN Early(Failure("Model not available in provider"))
                 ELSE IF EffectiveThinkingMode(model) /\ ~acme_config.thinking_mode
                 THEN ConsultStep("done", model_info, content_to_send, calls, "exited",
                                  vendor_response, llm_result,
                                  Raised("FeatureNotSupportedError"))
                 ELSE Goto("llm_completion")

\* The adapter's own get_model_info inside call_llm returns, then the size
\* check.  OpenRouter awaits an httpx request; Google calls the synchronous
\* client.models.get, which holds the event loop until it returns.
LLMInfoReturns ==
    /\ c_pc \in {"llm_info_await", "llm_info_block"}
    /\ UNCHANGED c_total_size
    /\ IF AdapterClass = "GoogleProvider"
          /\ GoogleThinkingBudget(model).kind \notin {"None", "int"}
       THEN ConsultStep("done", model_info, content_to_send, adapter_calls,
                        IF deadline = "passed" THEN "exited_late" ELSE "exited",
                        vendor_response, llm_result, Raised("TypeError"))
       ELSE \/ CallReturns(TooLarge(AdapterClass), vendor_response)
            \/ ConsultStep("llm_completion", model_info, content_to_send,
                           adapter_calls, deadline, vendor_response, llm_result,
                           c_result)

\* The completion request is answered before the deadline.
CompletionReturns ==
    /\ c_pc = "llm_completion"
    /\ deadline = "armed"
    /\ UNCHANGED c_total_size
    /\ \E answer \in VendorAnswers(AdapterClass) :
         CallReturns(CompletionResult(AdapterClass, model, answer), answer)

\* LLM_CALL_TIMEOUT elapses while call_llm is pending.  At an await the
\* timer callback cancels the task and consultation_impl returns the
\* timeout message; while the loop is blocked the callback cannot run.
DeadlineExpires ==
    /\ deadline = "armed"
    /\ c_pc \in {"llm_info_await", "llm_info_block", "llm_completion"}
    /\ UNCHANGED c_total_size
    /\ IF c_pc = "llm_info_block"
       THEN ConsultStep(c_pc, model_info, content_to_send, adapter_calls, "passed",
                        vendor_response, llm_result, c_result)
       ELSE ConsultStep("done", model_info, content_to_send, adapter_calls, "fired",
                        vendor_response, llm_result, TimeoutMessage)

\* call_llm suspends at an await after the deadline passed: the overdue
\* timer callback runs and cancels it.
CancelAtAwait ==
    /\ deadline = "passed"
    /\ c_pc = "llm_completion"
    /\ UNCHANGED c_total_size
    /\ ConsultStep("done", model_info, content_to_send, adapter_calls, "fired_late",
                   vendor_response, llm_result, TimeoutMessage)

\* After the deadline scope: the budget info, then the error or the
\* success return.
Finish ==
    /\ c_pc = "post"
    /\ Return(Message(IF llm_result.error # "None" THEN "llm_error" ELSE "success",
                      SomeInt(all_files_count), SomeInt(c_total_size),
                      llm_result.response, BudgetInfo(llm_result.reasoning)))

ConsultNext ==
    \/ Discover
    \/ GetModelContextInfo
    \/ ModelInfoReturns
    \/ LookupProvider
    \/ CallLLM
    \/ LLMInfoReturns
    \/ CompletionReturns
    \/ DeadlineExpires
    \/ CancelAtAwait
    \/ Finish

SpecConsult == ConsultInit /\ [][ConsultNext]_vars

(***************************************************************************)
(* token_utils: size budgets, token estimates and reasoning budgets        *)
(***************************************************************************)
DEFAULT_OUTPUT_TOKENS == 8000
SMALL_OUTPUT_TOKENS == 4000
MAX_PER_FILE_BYTES == 10000000
MIN_REASONING_BUDGET == 25000
DEFAULT_MAX_OUTPUT == 32000

\* The float ratios are kept as hundredths, the characters per token and the
\* estimation buffer as tenths; every product and quotient below is the
\* integer the float expression of the source evaluates to.
EFFORT_RATIOS == [high |-> 80, medium |-> 50, low |-> 20]
DYNAMIC_REASONING_RATIO == 50
CHARS_PER_TOKEN_REGULAR == 32
CHARS_PER_TOKEN_HTML == 25
TOKEN_ESTIMATION_BUFFER == 11

MODEL_REASONING_BEHAVIOR ==
    [name \in DOMAIN THINKING_LIMITS |->
        CASE name \in {"google/gemini-2.5-pro", "google/gemini-2.5-flash"} -> "additional"
          [] name \in {"google/gemini-3-pro-preview", "google/gemini-3-flash-preview"} ->
                "dynamic"
          [] OTHER -> "from_output"]

MODEL_MAX_OUTPUT ==
    [name \in DOMAIN THINKING_LIMITS |->
        CASE name = "openai/gpt-5.2" -> 128000
          [] name = "anthropic/claude-sonnet-4.5" -> 64000
          [] name = "anthropic/claude-opus-4.5" -> 32000
          [] name \in {"x-ai/grok-4", "x-ai/grok-4-fast"} -> 131072
          [] OTHER -> 65536]

\* The builtins max and min on two integers.
Max(a, b) == IF a >= b THEN a ELSE b
Min(a, b) == IF a <= b THEN a ELSE b

\* The tokens calculate_max_file_size reserves for reasoning.
ReservedThinking_EffortSwapped(thinking_budget_value, output_reserve) ==
    CASE thinking_budget_value.kind \in {"effort_high", "effort_medium"} ->
            (output_reserve * (IF thinking_budget_value.kind = "effort_medium"
                               THEN EFFORT_RATIOS.high
                               ELSE EFFORT_RATIOS.medium)) \div 100
      [] thinking_budget_value.kind \in {"enabled_high", "enabled_low"} ->
            (output_reserve * DYNAMIC_REASONING_RATIO) \div 100
      [] thinking_budget_value.kind = "int" -> thinking_budget_value.n
      [] OTHER -> 0
ReservedThinking(thinking_budget_value, output_reserve) ==
    CASE thinking_budget_value.kind \in {"effort_high", "effort_medium"} ->
            (output_reserve * (IF thinking_budget_value.kind = "effort_high"
                               THEN EFFORT_RATIOS.high
                               ELSE EFFORT_RATIOS.medium)) \div 100
      [] thinking_budget_value.kind \in {"enabled_high", "enabled_low"} ->
            (output_reserve * DYNAMIC_REASONING_RATIO) \div 100
      [] thinking_budget_value.kind = "int" -> thinking_budget_value.n
      [] OTHER -> 0

\* available_tokens = max(available_tokens, 10_000)
AvailableTokens_NoFloor(available_tokens) == available_tokens
AvailableTokens(available_tokens) == Max(available_tokens, 10000)

\* calculate_max_file_size(context_length, mode, model_name)
calculate_max_file_size(context_length, mode, model_name) ==
    LET output_reserve == DEFAULT_OUTPUT_TOKENS
        thinking_budget_value == get_thinking_budget(model_name, mode)
        reserved == ReservedThinking(thinking_budget_value, output_reserve)
        available_tokens == AvailableTokens(context_length - output_reserve - reserved)
        max_total_bytes == available_tokens * 4
    IN [max_total_bytes |-> max_total_bytes,
        max_per_file |-> Min(max_total_bytes \div 2, MAX_PER_FILE_BYTES)]

\* "<" in text, for a run-length encoded text
Contains(text, c) == \E i \in DOMAIN text : text[i].c = c /\ text[i].n > 0

\* estimate_tokens(text): int(len(text) / chars_per_token * 1.1 + 0.5)
estimate_tokens_RoundsUp(text) ==
    LET is_html == Contains(text, "<") /\ Contains(text, ">")
        chars_per_token == IF is_html THEN CHARS_PER_TOKEN_HTML
                           ELSE CHARS_PER_TOKEN_REGULAR
    IN (StrLen(text) * TOKEN_ESTIMATION_BUFFER) \div chars_per_token + 1
estimate_tokens(text) ==
    LET is_html == Contains(text, "<") /\ Contains(text, ">")
        chars_per_token == IF is_html THEN CHARS_PER_TOKEN_HTML
                           ELSE CHARS_PER_TOKEN_REGULAR
    IN (2 * StrLen(text) * TOKEN_ESTIMATION_BUFFER + chars_per_token)
           \div (2 * chars_per_token)

\* min(max(calculated, MIN_REASONING_BUDGET), model_max)
EffortMaxTokens_NoCeiling(calculated, model_max) == Max(calculated, MIN_REASONING_BUDGET)
EffortMaxTokens(calculated, model_max) ==
    Min(Max(calculated, MIN_REASONING_BUDGET), model_max)

\* The branch for an explicit token budget (isinstance(thinking_budget, int)).
ExplicitMaxTokens_AlwaysAdds(behavior, budget_tokens, base_output_tokens) ==
    budget_tokens + base_output_tokens
ExplicitMaxTokens(behavior, budget_tokens, base_output_tokens) ==
    IF behavior = "from_output" THEN budget_tokens + base_output_tokens
    ELSE IF behavior = "additional" THEN base_output_tokens
    ELSE budget_tokens + base_output_tokens

\* calculate_reasoning_max_tokens(model_name, mode, thinking_budget, base_output_tokens)
calculate_reasoning_max_tokens(model_name, mode, budget, base_output_tokens) ==
    IF mode = "fast" \/ budget.kind = "None" THEN base_output_tokens
    ELSE
    LET behavior == IF model_name \in DOMAIN MODEL_REASONING_BEHAVIOR
                    THEN MODEL_REASONING_BEHAVIOR[model_name] ELSE "from_output"
        model_max == IF model_name \in DOMAIN MODEL_MAX_OUTPUT
                     THEN MODEL_MAX_OUTPUT[model_name] ELSE DEFAULT_MAX_OUTPUT
    IN CASE budget.kind \in {"effort_high", "effort_medium"} ->
              LET effort_ratio == IF budget.kind = "effort_high"
                                  THEN EFFORT_RATIOS.high ELSE EFFORT_RATIOS.medium
                  calculated == (base_output_tokens * 100) \div (100 - effort_ratio)
              IN EffortMaxTokens(calculated, model_max)
         [] budget.kind \in {"enabled_high", "enabled_low"} ->
              (model_max * DYNAMIC_REASONING_RATIO) \div 100
         [] budget.kind = "int" ->
              ExplicitMaxTokens(behavior, budget.n, base_output_tokens)
         [] OTHER -> base_output_tokens

\* The arguments the calls are made with.
ModelNames == DOMAIN THINKING_LIMITS \cup {"unknown/model"}
Modes == {"fast", "mid", "think", "other"}
ContextLengths == {0, 18000, 50000, DEFAULT_CONTEXT_LENGTH, 6000000}
ExplicitBudgets ==
    {BudgetNone, BudgetTokens(1024), BudgetTokens(31999), BudgetTokens(32768)}
        \cup {BudgetMarker(m) : m \in {"effort_high", "effort_medium",
                                        "enabled_high", "enabled_low"}}
BaseOutputTokens == {SMALL_OUTPUT_TOKENS, DEFAULT_OUTPUT_TOKENS, 200000}
PlainText(n) == IF n = 0 THEN EmptyText ELSE <<Run("a", n)>>
MarkupText(n) == <<Run("<", 1), Run("a", n), Run(">", 1)>>
Texts ==
    {PlainText(n) : n \in {0, 1, 2, 3, 100}}
        \cup {MarkupText(n) : n \in {0, 1, 98}}
        \cup {<<Run("<", 1), Run("a", 2)>>}

\* One run applies one function: a single call of a budget function, or
\* the estimate_tokens calls an adapter makes for the parts of one request.
Call(fn, args, ret) == [fn |-> fn, args |-> args, ret |-> ret]

TokenInit ==
    /\ u_call = NoCall /\ u_estimates = <<>> /\ u_budgets = <<>>
    /\ RenderIdle /\ RegistryIdle /\ StreamIdle /\ ConsultIdle /\ DiscoverIdle /\ ServerIdle

\* The budget of one model and context length, asked for several modes.
CallCalculateMaxFileSize ==
    \E context_length \in ContextLengths, mode \in Modes, model_name \in ModelNames :
        /\ u_call.fn \in {"none", "calculate_max_file_size"}
        /\ Len(u_budgets) < MaxBudgets
        /\ u_budgets # <<>> =>
              /\ context_length = u_call.args.context_length
              /\ model_name = u_call.args.model_name
        /\ u_call' = Call("calculate_max_file_size",
                          [context_length |-> context_length, mode |-> mode,
                           model_name |-> model_name],
                          calculate_max_file_size(context_length, mode, model_name))
        /\ u_budgets' = Append(u_budgets, u_call')
        /\ UNCHANGED <<u_estimates, nonTokenVars>>

CallGetThinkingBudget ==
    \E model_name \in ModelNames, mode \in Modes :
        /\ u_call.fn = "none"
        /\ u_call' = Call("get_thinking_budget",
                          [model_name |-> model_name, mode |-> mode],
                          get_thinking_budget(model_name, mode))
        /\ UNCHANGED <<u_estimates, u_budgets, nonTokenVars>>

CallCalculateReasoningMaxTokens ==
    \E model_name \in ModelNames, mode \in Modes \ {"other"},
       budget \in ExplicitBudgets, base_output_tokens \in BaseOutputTokens :
        /\ u_call.fn = "none"
        /\ u_call' = Call("calculate_reasoning_max_tokens",
                          [model_name |-> model_name, mode |-> mode,
                           thinking_budget |-> budget,
                           base_output_tokens |-> base_output_tokens],
                          calculate_reasoning_max_tokens(model_name, mode, budget,
                                                         base_output_tokens))
        /\ UNCHANGED <<u_estimates, u_budgets, nonTokenVars>>

\* consultation_impl: parse_model_thinking(model), then effective_thinking_mode.
CallParseModelThinking ==
    \E model_spec \in ModelSpecs :
        /\ u_call.fn = "none"
        /\ u_call' = Call("parse_model_thinking", [model_spec |-> model_spec],
                          [model_name |-> parse_model_thinking(model_spec).model_name,
                           custom_tokens |-> parse_model_thinking(model_spec).custom_tokens,
                           effective_thinking_mode |-> EffectiveThinkingMode(model_spec)])
        /\ UNCHANGED <<u_estimates, u_budgets, nonTokenVars>>

CallEstimateTokens ==
    \E text \in Texts :
        /\ u_call.fn \in {"none", "estimate_tokens"}
        /\ Len(u_estimates) < MaxEstimates
        /\ u_call' = Call("estimate_tokens", [text |-> text], estimate_tokens(text))
        /\ u_estimates' = Append(u_estimates, u_call')
        /\ UNCHANGED <<u_budgets, nonTokenVars>>

TokenNext ==
    \/ CallCalculateMaxFileSize
    \/ CallGetThinkingBudget
    \/ CallCalculateReasoningMaxTokens
    \/ CallParseModelThinking
    \/ CallEstimateTokens

SpecTokenUtils == TokenInit /\ [][TokenNext]_vars

(***************************************************************************)
(* Properties of a consultation request                                    *)
(***************************************************************************)
Registered(name) == name \in DOMAIN PROVIDERS

NoAdapterCall == adapter_calls = <<>>

ReturnedUnknownProvider ==
    c_result.kind = "returned" /\ c_result.tag = "unknown_provider"

\* The request names "openai" and carries a context modifier that is not a
\* number.
UnparsableOpenAIContext ==
    LET m == ModelForInfo(provider, model)
    IN provider = "openai" /\ Len(m) > 1 /\ m[2] # "thinking"
       /\ ParseContext(m[2]).isNone

\* C4 as stated: a request naming a provider that is not in the registry
\* ends with the error "Unknown provider '<name>'" and without any adapter
\* get_model_info or call_llm call, for every model string and file set.
C4_UnknownProviderError ==
    (c_pc = "done" /\ ~Registered(provider)) =>
        (ReturnedUnknownProvider /\ NoAdapterCall)

\* C4 amended: a request naming a provider that is not in the registry never
\* calls an adapter's get_model_info or call_llm; when discovery found at
\* least one file, and the name is not "openai" with a context modifier that
\* is not a number, it ends with the error "Unknown provider '<name>'".
C4_UnknownProviderNoAdapterCall ==
    ~Registered(provider) =>
        /\ NoAdapterCall
        /\ (c_pc = "done" /\ all_files_count > 0 /\ ~UnparsableOpenAIContext) =>
               ReturnedUnknownProvider

C4_Witness ==
    /\ c_pc = "done" /\ provider = "nosuch" /\ model = <<"m1", "thinking">>
    /\ all_files_count > 0 /\ ReturnedUnknownProvider /\ NoAdapterCall

\* The deadline expired while call_llm was pending.
DeadlineExpiredDuringCall == deadline \in {"passed", "fired", "fired_late", "exited_late"}

\* C8 as stated: when the deadline expires while the adapter call is
\* pending, the request ends with the timeout error that states the number
\* of files and bytes collected.
C8_DeadlineEndsWithTimeoutError ==
    (c_pc = "done" /\ DeadlineExpiredDuringCall) =>
        /\ c_result.kind = "returned" /\ c_result.tag = "timeout"
        /\ c_result.files = SomeInt(all_files_count)
        /\ c_result.bytes = SomeInt(c_total_size)

\* C9 as stated: no error leaves consultation_impl as an exception; every
\* request ends with a returned message.
C9_NoExceptionEscapes == c_result.kind # "raised"

\* C10 as stated: when the vendor's answer to the completion request is
\* missing or empty, call_llm of every adapter returns an explicit error.
C10_EmptyVendorResponseIsError ==
    (/\ c_pc \in {"post", "done"}
     /\ vendor_response.kind \in {"content", "no_choices"}
     /\ vendor_response.content \in {NoneText, EmptyText}) =>
        llm_result.error # "None"

\* call_llm returned for a request that asked for no reasoning: neither a
\* "|thinking" suffix nor a custom thinking budget.
ReturnedWithoutReasoningRequest ==
    /\ llm_result.error # "unset"
    /\ ~EffectiveThinkingMode(model)
    /\ ThinkingBudgetArg(model) = BudgetNone

\* C25: when reasoning was not requested, the third element call_llm returns
\* is None on success and on every error path, and the summary
\* consultation_impl returns carries no reasoning state.
C25_NoReasoningRequestedReturnsNone ==
    ReturnedWithoutReasoningRequest =>
        /\ llm_result.reasoning.isNone
        /\ (c_pc = "done" /\ c_result.kind = "returned") =>
              c_result.budget_info = "none"

\* C29: whenever an adapter has sent its completion request, the text of
\* the included files is in it, for every registered provider and both
\* values of include_images.
C29_FileTextReachesVendor ==
    c_pc \in {"llm_completion", "post", "done"} /\ request_text # "unset" =>
        request_text \in {"verbatim", "repr"}

\* The position of the request in consultation_impl, in program order.
PcRank(pc) ==
    CASE pc = "start" -> 0
      [] pc = "model_info" -> 1
      [] pc = "info_await" -> 2
      [] pc = "lookup" -> 3
      [] pc = "call" -> 4
      [] pc \in {"llm_info_await", "llm_info_block"} -> 5
      [] pc = "llm_completion" -> 6
      [] pc = "post" -> 7
      [] OTHER -> 8

CompletionCalls ==
    Cardinality({i \in DOMAIN adapter_calls : adapter_calls[i] = "call_llm"})

\* C26: within one request call_llm is called at most once and sends its
\* completion request at most once: the request never goes back to an
\* earlier position, the pending completion request ends in the return of
\* call_llm or in the timeout, and an error call_llm returned is the next
\* thing consultation_impl returns, with no adapter call in between.
C26_CompletionCalledOnce ==
    [][/\ PcRank(c_pc') >= PcRank(c_pc)
       /\ CompletionCalls' <= 1
       /\ c_pc = "llm_completion" => c_pc' \in {"post", "done"}
       /\ (c_pc = "post" /\ llm_result.error # "None") =>
             /\ c_pc' = "done"
             /\ adapter_calls' = adapter_calls
             /\ c_result'.kind = "returned" /\ c_result'.tag = "llm_error"]_vars

\* C26 witness: the vendor's failure of the one completion request was
\* returned as the error of the request.
C26_Witness ==
    /\ c_pc = "done" /\ c_result.tag = "llm_error"
    /\ vendor_response.kind \in {"exception", "status_error"}
    /\ CompletionCalls = 1

\* The request names "openai" with a model string that carries no context
\* modifier: "<model>" or "<model>|thinking".
OpenAIWithoutContext ==
    provider = "openai" /\ model \in {<<"m1">>, <<"m1", "thinking">>}

\* C17 as stated: for provider openai a model string without a context
\* modifier makes the request fail with the message that describes the
\* modifier syntax, and no completion call is made.
C17_OpenAIWithoutContextFails ==
    (c_pc = "done" /\ OpenAIWithoutContext) =>
        /\ c_result.kind = "returned"
        /\ c_result.tag = "openai_requires_context"
        /\ NoAdapterCall

\* C17 as amended: no adapter method is ever called for such a request, and
\* when the openai adapter is registered and at least one file was found the
\* request returns the message that describes the modifier syntax.
C17_OpenAIWithoutContextNoCall ==
    OpenAIWithoutContext =>
        /\ NoAdapterCall
        /\ vendor_response = NoVendorResponse
        /\ (c_pc = "done" /\ Registered("openai") /\ all_files_count > 0) =>
              /\ c_result.kind = "returned"
              /\ c_result.tag = "openai_requires_context"

C17_Witness ==
    /\ c_pc = "done" /\ provider = "openai" /\ model = <<"m1", "thinking">>
    /\ Registered("openai") /\ all_files_count > 0
    /\ c_result.tag = "openai_requires_context"

\* The adapter's metadata request was sent and did not succeed.
MetadataFetchFailed ==
    model_info.fetch \in MetadataFetches \ {"ok"}

\* C20: get_model_info of an adapter returns None, and does not raise, when
\* its metadata fetch fails (network error, status other than 200, model not
\* listed) or cannot be made (no key, no configuration entry), and the
\* request goes on with a context length of DEFAULT_CONTEXT_LENGTH
\* (128,000); so does a request whose provider has no adapter (SDK missing).
C20_FailedFetchGivesDefaultContext ==
    /\ [](MetadataFetchFailed =>
            /\ model_info.adapter_info = "None"
            /\ model_info.context_length = DEFAULT_CONTEXT_LENGTH)
    /\ []((model_info.adapter_info = "None"
              \/ (c_pc = "lookup" /\ ~Registered(provider))) =>
            model_info.context_length = DEFAULT_CONTEXT_LENGTH)
    /\ [][c_pc = "info_await" => (c_pc' = "lookup" /\ c_result' = NoOutcome)]_vars

C20_Witness ==
    /\ c_pc = "lookup"
    /\ provider = "openrouter"
    /\ model_info.fetch = "status_not_200"
    /\ model_info.adapter_info = "None"
    /\ model_info.context_length = DEFAULT_CONTEXT_LENGTH

(***************************************************************************)
(* Properties of the streaming read                                        *)
(***************************************************************************)
IsWellFormedContent(l) ==
    l.line = "data" /\ l.data = "json" /\ l.choices /\ l.delta_ok

\* Lines the claim speaks of: well-formed content frames, [DONE], blank
\* lines and malformed JSON frames.
ClaimedLines ==
    {BlankLine, DoneLine, MalformedLine, ContentChunk(TextAB),
     ContentChunk(TextCD), ContentChunk(TextLong)}

FirstDone(lines) ==
    IF \E i \in DOMAIN lines : lines[i] = DoneLine
    THEN CHOOSE i \in DOMAIN lines :
           /\ lines[i] = DoneLine
           /\ \A j \in 1..(i - 1) : lines[j] # DoneLine
    ELSE Len(lines) + 1

RECURSIVE DeltasUpTo(_, _)
\* The delta.content values of the well-formed frames among the first k
\* lines, concatenated in arrival order.
DeltasUpTo(lines, k) ==
    IF k = 0 THEN EmptyText
    ELSE Cat(DeltasUpTo(lines, k - 1),
             IF IsWellFormedContent(lines[k]) THEN lines[k].content ELSE EmptyText)

DeltasBeforeDone == DeltasUpTo(sse_lines, FirstDone(sse_lines) - 1)

\* The read ran to [DONE] or to the end of the body.
ReadCompleted ==
    /\ s_pc = "done"
    /\ s_result.error \in {"None", "No content received from API (empty response)"}
    /\ \A i \in DOMAIN sse_lines : sse_lines[i] \in ClaimedLines

\* C5 (as claimed): the response text is the concatenation of the deltas
\* received before the first [DONE].
C5_ResponseIsConcatenation ==
    ReadCompleted => s_result.response = DeltasBeforeDone

\* C5 (amended): the response text is that concatenation when it has at
\* most MAX_RESPONSE_SIZE characters, and otherwise its first
\* MAX_RESPONSE_SIZE characters followed by the truncation marker.
C5_ResponseIsConcatenationUpToLimit ==
    ReadCompleted =>
        s_result.response =
            IF StrLen(DeltasBeforeDone) <= MAX_RESPONSE_SIZE
            THEN DeltasBeforeDone
            ELSE Cat(Take(DeltasBeforeDone, MAX_RESPONSE_SIZE), TruncationMarker)

\* C5 witness: frames "ab", "cd", [DONE] were read and gave "abcd".
C5_Witness ==
    /\ s_pc = "done"
    /\ sse_lines = <<ContentChunk(TextAB), ContentChunk(TextCD), DoneLine>>
    /\ s_result.error = "None"
    /\ s_result.response = <<Run("a", 1), Run("b", 1), Run("c", 1), Run("d", 1)>>

\* The adapter was called in thinking mode with an effort or dynamic budget
\* and returned a response: its third result is one of the markers -1 .. -4.
MarkerReturned ==
    /\ s_pc = "done" /\ s_result.error = "None"
    /\ thinking_mode
    /\ thinking_budget.kind \in {"effort_high", "effort_medium",
                                 "enabled_high", "enabled_low"}

BuiltinAvailable(name) ==
    CASE name = "openrouter" -> TRUE
      [] name = "google" -> GOOGLE_AVAILABLE
      [] name = "openai" -> OPENAI_AVAILABLE

DeclaredNames == {config_file[i].name : i \in DOMAIN config_file}

\* C6: once the built-ins are registered, and whatever the configuration
\* file declares, every available built-in name maps to its built-in
\* adapter, and no declared provider is ever registered under one of the
\* three built-in names.
C6_BuiltinsNeverShadowed ==
    /\ \A name \in DOMAIN PROVIDERS \cap BuiltinNames :
          PROVIDERS[name] = BuiltinAdapter(name)
    /\ g_pc \in {"load", "custom", "done"} =>
          \A name \in BuiltinNames :
              BuiltinAvailable(name) => name \in DOMAIN PROVIDERS

\* C6 witness: construction finished with a file that declares a provider
\* under a built-in name next to a valid one.
C6_Witness ==
    /\ g_pc = "done" /\ OPENAI_AVAILABLE
    /\ DeclaredNames \cap BuiltinNames # {}
    /\ "acme" \in DeclaredNames

\* The loop over the loaded entries ran, and one of them names an
\* environment variable that is not set.
ConstructionFailed ==
    /\ g_pc = "done" /\ OPENAI_AVAILABLE
    /\ ConfigLoader_load(config_file) # <<>>
    /\ \E i \in DOMAIN config_file : InitRaises(config_file[i])

\* C23: a declared provider whose key variable is unset fails to construct
\* and is left out of the registry; the available built-ins and every other
\* declared provider whose key is set are registered all the same.
C23_FailedInitSkipsOnlyThatProvider ==
    ConstructionFailed =>
        /\ \A i \in DOMAIN config_file :
              IF InitRaises(config_file[i])
              THEN config_file[i].name \notin DOMAIN PROVIDERS
              ELSE /\ config_file[i].name \in DOMAIN PROVIDERS
                   /\ PROVIDERS[config_file[i].name]
                         = ConfigurableOpenAIProvider(config_file[i])
        /\ \A name \in BuiltinNames :
              BuiltinAvailable(name) =>
                  /\ name \in DOMAIN PROVIDERS
                  /\ PROVIDERS[name] = BuiltinAdapter(name)

\* C23 witness: a valid provider is registered before and after one whose
\* construction failed.
C23_Witness ==
    /\ ConstructionFailed
    /\ \E i, j \in DOMAIN config_file :
          /\ i < j /\ ~InitRaises(config_file[i]) /\ InitRaises(config_file[j])
          /\ config_file[i].name \in DOMAIN PROVIDERS
          /\ config_file[j].name \notin DOMAIN PROVIDERS

RegisteredBy(log) ==
    {log[i] : i \in DOMAIN log} \ {c.name : c \in {d \in CustomCatalog : InitRaises(d)}}

AdapterFor(name) ==
    IF name \in BuiltinNames THEN BuiltinAdapter(name)
    ELSE ConfigurableOpenAIProvider(CHOOSE c \in CustomCatalog : c.name = name)

\* C7: the registry depends only on the set of names registered, not on
\* the order of the calls or on how often a name was registered.
C7_OrderIndependentIdempotent ==
    g_pc = "anyorder" =>
        PROVIDERS = [n \in RegisteredBy(reg_log) |-> AdapterFor(n)]

\* C7 witness: one name registered twice with others in between, out of
\* the module's own order.
C7_Witness ==
    /\ g_pc = "anyorder" /\ Len(reg_log) = 4
    /\ reg_log[1] = "acme" /\ reg_log[2] = "openai"
    /\ reg_log[3] = "acme" /\ reg_log[4] = "openrouter"

(***************************************************************************)
(* Properties of the render                                                *)
(***************************************************************************)
PartsOf(i) == {content_list[k].kind : k \in {j \in DOMAIN content_list : content_list[j].file = i}}
ErrorsOf(i) == {errors[k].kind : k \in {j \in DOMAIN errors : errors[j].file = i}}

\* The file's content is in the document.
Included(i) == PartsOf(i) \cap {"text_content", "inline_data"} # {}
\* The file has an entry in the error list.
ErrorRecorded(i) == ErrorsOf(i) # {}
\* The file has a limit-exceeded entry in the error list.
LimitErrorRecorded(i) == "error_total_limit" \in ErrorsOf(i)
\* The loop stopped at a file that did not fit.
CutOffAt(i) == "error_total_limit" \in PartsOf(i)
CutOffHappened == \E i \in 1..n_files : CutOffAt(i)

\* What the file at position i added to total_size according to the parts
\* the render emitted for it: its size for included text, the base64
\* estimate for an embedded image, and its size for an image that is only
\* represented by the placeholder note.
Contribution(i) ==
    CASE "text_content" \in PartsOf(i) -> all_files[i].size
      [] "inline_data" \in PartsOf(i) -> Base64Estimate(all_files[i].size)
      [] "info_image" \in PartsOf(i) -> all_files[i].size
      [] OTHER -> 0

RECURSIVE SumUpTo(_, _)
SumUpTo(f(_), n) == IF n = 0 THEN 0 ELSE f(n) + SumUpTo(f, n - 1)

IncludedSize(i) == IF Included(i) THEN all_files[i].size ELSE 0

\* C28 as stated: total_size is the sum of the sizes of the files whose
\* content was included; placeholders, skipped and failed files add nothing.
C28_TotalIsSumOfIncludedSizes ==
    r_pc \in {"loop", "done"} => total_size = SumUpTo(IncludedSize, Len(all_files))

\* C28 amended: total_size is the sum of the size of every included text
\* file, the base64 estimate int(size * 1.33) of every embedded image and
\* the size of every image represented by a placeholder note; skipped and
\* failed files add nothing.
C28_TotalIsSumOfContributions ==
    r_pc \in {"loop", "done"} => total_size = SumUpTo(Contribution, Len(all_files))

\* C28 witness: a finished render with an included text file, a placeholder
\* image and a file that failed.
C28_Witness ==
    /\ r_pc = "done" /\ ~include_images
    /\ \E i, j, k \in 1..Len(all_files) :
          /\ "text_content" \in PartsOf(i)
          /\ "info_image" \in PartsOf(j)
          /\ ErrorRecorded(k)
    /\ total_size > 0

\* C1: at every point of the render loop, with text and image files and
\* include_images on or off, total_size is at most the total byte budget.
C1_TotalWithinBudget == r_pc \in {"loop", "done"} => total_size <= max_total

\* C1 witness: a render that filled part of a small budget and was then cut off.
C1_Witness ==
    /\ r_pc = "done" /\ CutOffHappened /\ total_size > 0
    /\ \E i \in 1..Len(all_files) : all_files[i].is_img

\* C2 (as claimed): once the budget is exceeded, the file at the cut-off and
\* every file after it has a limit-exceeded entry in the error list, and no
\* file is both included and marked excluded.
C2_EveryExcludedFileRecorded ==
    r_pc = "done" =>
        /\ \A i \in 1..n_files :
              (\E k \in 1..i : CutOffAt(k)) => LimitErrorRecorded(i)
        /\ \A i \in 1..n_files : ~(Included(i) /\ LimitErrorRecorded(i))

\* The render of two readable text files of 100 and 50 bytes, in that
\* order, under a total budget of 120 bytes, has run to its end.
C3_Scenario ==
    /\ r_pc = "done" /\ max_total = 120 /\ n_files = 2 /\ Len(all_files) = 2
    /\ all_files[1] = Observed(100, FALSE, "none")
    /\ all_files[2] = Observed(50, FALSE, "none")

\* C3: two readable text files of 100 and 50 bytes, in that order, under a
\* total budget of 120 bytes: the first is included, the second is excluded
\* with a recorded error, and total_size is 100.
C3_TwoFilesBudget120 ==
    C3_Scenario =>
        /\ Included(1)
        /\ ~Included(2) /\ ErrorRecorded(2)
        /\ total_size = 100

\* C3 witness: the scenario has run to the end of the render.
C3_Witness == C3_Scenario /\ CutOffAt(2)

\* The file failed on its own: larger than the per-file cap, or stat or
\* read raised.
FailedFile(i) ==
    all_files[i].fault # "none" \/ all_files[i].size > MAX_FILE_SIZE

ErrorPartKinds ==
    {"error_too_large", "error_permission", "error_exception", "error_reading_image"}

\* The step processes one more file, and that file failed on its own.
FailureStep ==
    /\ Len(all_files') = Len(all_files) + 1
    /\ LET obs == all_files'[Len(all_files')]
       IN obs.fault # "none" \/ obs.size > MAX_FILE_SIZE

\* C11: a file that fails on its own (over the per-file cap, permission
\* denied, read error) gets an inline error part and an error-list entry and
\* is not included; the step adds nothing to total_size and leaves the loop
\* running, so that a render not cut off by the total budget processes every
\* file.
C11_PerFileFailureIsolated ==
    /\ [](\A i \in 1..Len(all_files) :
            FailedFile(i) =>
                /\ PartsOf(i) \cap ErrorPartKinds # {}
                /\ ErrorsOf(i) \cap ErrorPartKinds # {}
                /\ ~Included(i))
    /\ []((r_pc = "done" /\ ~CutOffHappened) => Len(all_files) = n_files)
    /\ [][FailureStep => (total_size' = total_size /\ r_pc' = "loop")]_vars

\* C11 witness: a file over the cap, then a file whose read was denied,
\* then a text file that was included and alone makes up total_size.
C11_Witness ==
    /\ r_pc = "done" /\ Len(all_files) = 3
    /\ all_files[1].size > MAX_FILE_SIZE
    /\ all_files[2].fault = "PermissionError"
    /\ Included(3) /\ total_size = all_files[3].size

(***************************************************************************)
(* Properties of the token_utils functions                                 *)
(***************************************************************************)
Called(fn) == u_call.fn = fn

HardFloorBytes == 10000 * 4

\* C12: calculate_max_file_size returns a max_total_bytes that is positive
\* and at least the hard floor of 10,000 tokens times 4 bytes, for every
\* context length (the default fallback included), mode and model, and its
\* max_per_file is min(max_total_bytes / 2, MAX_PER_FILE_BYTES).
C12_BudgetAboveFloor ==
    Called("calculate_max_file_size") =>
        /\ u_call.ret.max_total_bytes > 0
        /\ u_call.ret.max_total_bytes >= HardFloorBytes
        /\ 2 * (u_call.ret.max_total_bytes \div 2) = u_call.ret.max_total_bytes
        /\ u_call.ret.max_per_file =
              Min(u_call.ret.max_total_bytes \div 2, MAX_PER_FILE_BYTES)

\* The floor decides (a context smaller than the reserve), the default
\* context length is used, and the per-file cap decides.
C12_Witness ==
    /\ Called("calculate_max_file_size")
    /\ u_call.args.context_length = 0
    /\ u_call.ret.max_total_bytes = HardFloorBytes
    /\ u_call.ret.max_per_file = HardFloorBytes \div 2

\* C13: get_thinking_budget(model, "fast") is None for every model of the
\* THINKING_LIMITS table and for every model that is not in it.
C13_FastModeHasNoBudget ==
    (Called("get_thinking_budget") /\ u_call.args.mode = "fast") =>
        u_call.ret = BudgetNone

C13_Witness ==
    /\ Called("get_thinking_budget")
    /\ u_call.args.mode = "fast"
    /\ u_call.args.model_name = "openai/gpt-5.2"
    /\ u_call.ret = BudgetNone

EffortModels == {name \in DOMAIN THINKING_LIMITS : THINKING_LIMITS[name].kind = "effort"}

EffortHighCall ==
    /\ Called("calculate_reasoning_max_tokens")
    /\ u_call.args.model_name \in EffortModels
    /\ u_call.args.mode = "think"
    /\ u_call.args.thinking_budget = BudgetMarker("effort_high")

\* C14: for every effort-based model, calculate_reasoning_max_tokens in mode
\* "think" with budget "effort_high" returns at least MIN_REASONING_BUDGET
\* (25,000) and at most the model's MODEL_MAX_OUTPUT entry, whatever
\* base_output_tokens is.
C14_EffortHighWithinBounds ==
    EffortHighCall =>
        /\ u_call.ret >= MIN_REASONING_BUDGET
        /\ u_call.ret <= MODEL_MAX_OUTPUT[u_call.args.model_name]

\* The ceiling decides: five times 200,000 is above the model's maximum.
C14_Witness ==
    /\ EffortHighCall
    /\ u_call.args.base_output_tokens = 200000
    /\ u_call.ret = MODEL_MAX_OUTPUT[u_call.args.model_name]

AdditionalExplicitCall ==
    /\ Called("calculate_reasoning_max_tokens")
    /\ u_call.args.model_name \in DOMAIN MODEL_REASONING_BEHAVIOR
    /\ MODEL_REASONING_BEHAVIOR[u_call.args.model_name] = "additional"
    /\ u_call.args.thinking_budget.kind = "int"

IsMarkup(text) == Contains(text, "<") /\ Contains(text, ">")

\* C18: estimate_tokens("") is 0, and of two texts of the same markup class
\* (both with "<" and ">", or both not) the longer one never gets the
\* smaller estimate.
C18_EstimateMonotoneInLength ==
    \A i \in DOMAIN u_estimates :
        /\ u_estimates[i].args.text = EmptyText => u_estimates[i].ret = 0
        /\ \A j \in DOMAIN u_estimates :
              (/\ IsMarkup(u_estimates[i].args.text) = IsMarkup(u_estimates[j].args.text)
               /\ StrLen(u_estimates[i].args.text) <= StrLen(u_estimates[j].args.text))
                  => u_estimates[i].ret <= u_estimates[j].ret

C18_Witness ==
    /\ Len(u_estimates) = 2
    /\ u_estimates[1].args.text = EmptyText
    /\ IsMarkup(u_estimates[2].args.text) = IsMarkup(u_estimates[1].args.text)
    /\ u_estimates[1].ret = 0
    /\ u_estimates[2].ret > 0

Parsed(part) ==
    /\ Called("parse_model_thinking")
    /\ u_call.args.model_spec = <<"m1", part>>

\* C16: "<id>|thinking=N" with N a non-negative integer is parsed to (id, N);
\* "<id>|thinking" to (id, None) with the thinking flag set; a negative or
\* non-numeric value after "|thinking=" to (id, None), no override, and the
\* parse returns for every model string.
C16_ThinkingSuffixParsed ==
    /\ Parsed("thinking=5000") =>
          u_call.ret.model_name = <<"m1">> /\ u_call.ret.custom_tokens = SomeInt(5000)
    /\ Parsed("thinking=0") =>
          u_call.ret.model_name = <<"m1">> /\ u_call.ret.custom_tokens = SomeInt(0)
    /\ Parsed("thinking") =>
          /\ u_call.ret.model_name = <<"m1">>
          /\ u_call.ret.custom_tokens = NoneInt
          /\ u_call.ret.effective_thinking_mode
    /\ \A part \in {"thinking=-5", "thinking=abc", "thinking="} :
          Parsed(part) =>
              u_call.ret.model_name = <<"m1">> /\ u_call.ret.custom_tokens = NoneInt
    /\ Called("parse_model_thinking") =>
          /\ u_call.ret.custom_tokens \in {NoneInt} \cup {SomeInt(n) : n \in 0..5000}
          /\ u_call.ret.effective_thinking_mode \in BOOLEAN

C16_Witness ==
    /\ Parsed("thinking=-5")
    /\ u_call.ret.custom_tokens = NoneInt
    /\ ~u_call.ret.effective_thinking_mode

\* A reasoning request to a model whose reasoning comes out of max_tokens.
FromOutputReasoningCall ==
    /\ Called("calculate_reasoning_max_tokens")
    /\ u_call.args.model_name \in DOMAIN MODEL_REASONING_BEHAVIOR
    /\ MODEL_REASONING_BEHAVIOR[u_call.args.model_name] = "from_output"
    /\ u_call.args.mode \in {"mid", "think"}
    /\ u_call.args.thinking_budget.kind \in {"effort_high", "effort_medium", "int"}

\* C24: for every model whose reasoning behaviour is "from_output" and every
\* reasoning request (effort marker or explicit token count, mid or think),
\* calculate_reasoning_max_tokens returns at most the model's
\* MODEL_MAX_OUTPUT entry.
C24_FromOutputWithinCeiling ==
    FromOutputReasoningCall =>
        u_call.ret <= MODEL_MAX_OUTPUT[u_call.args.model_name]

\* How much reasoning a mode asks for: fast none, mid some, think the most.
ModeRank(mode) == CASE mode = "fast" -> 0 [] mode = "mid" -> 1 [] mode = "think" -> 2
                    [] OTHER -> 0

\* C30: for a fixed model and context length calculate_max_file_size never
\* grants more bytes to a mode that reserves more reasoning:
\* think <= mid <= fast, for max_total_bytes and for max_per_file.
C30_BudgetShrinksWithReasoning ==
    \A i, j \in DOMAIN u_budgets :
        (/\ u_budgets[i].args.mode \in {"fast", "mid", "think"}
         /\ u_budgets[j].args.mode \in {"fast", "mid", "think"}
         /\ ModeRank(u_budgets[i].args.mode) <= ModeRank(u_budgets[j].args.mode)) =>
            /\ u_budgets[j].args.model_name = u_budgets[i].args.model_name
            /\ u_budgets[j].args.context_length = u_budgets[i].args.context_length
            /\ u_budgets[j].ret.max_total_bytes <= u_budgets[i].ret.max_total_bytes
            /\ u_budgets[j].ret.max_per_file <= u_budgets[i].ret.max_per_file

C30_Witness ==
    /\ Len(u_budgets) = 3
    /\ u_budgets[1].args.mode = "fast"
    /\ u_budgets[2].args.mode = "mid"
    /\ u_budgets[3].args.mode = "think"
    /\ u_budgets[1].args.model_name = "openai/gpt-5.2"
    /\ u_budgets[3].ret.max_total_bytes < u_budgets[2].ret.max_total_bytes
    /\ u_budgets[2].ret.max_total_bytes < u_budgets[1].ret.max_total_bytes

(***************************************************************************)
(* discover_files(base_path, pattern, exclude_pattern)                     *)
(* (file_processor.py).  The function body is one try block; base_path is  *)
(* handed to Path(...).resolve() as it is, so a "*" in it is an ordinary   *)
(* character of a directory name.                                          *)
(***************************************************************************)

MaxDirs == 2

IMAGE_EXTENSIONS == {".png", ".jpg", ".jpeg", ".gif", ".webp", ".bmp", ".svg"}

DEFAULT_IGNORED == {"__pycache__", ".env", "secrets.py", ".DS_Store", ".git",
                    "node_modules"}

\* The file names of the modelled trees, with their suffix.
Suffix == [a_py |-> ".py", b_png |-> ".png", notes_txt |-> ".txt",
           a_test_py |-> ".py", dot_env |-> ""]

FileName == [a_py |-> "a.py", b_png |-> "b.png", notes_txt |-> "notes.txt",
             a_test_py |-> "a_test.py", dot_env |-> ".env"]

is_image_file(file) == Suffix[file] \in IMAGE_EXTENSIONS

should_ignore_path(file) == FileName[file] \in DEFAULT_IGNORED

\* include_re.match(file) for the valid include pattern ".*\.(py|png)".
IncludeMatches(file) == Suffix[file] \in {".py", ".png"}

\* exclude_re.match(file) for the valid exclude pattern ".*_test\.py";
\* exclude_re is None when no exclude pattern was given.
ExcludeMatches(exclude_pattern, file) ==
    exclude_pattern = "ok" /\ file = "a_test_py"

Listings == {<<>>, <<"a_py">>, <<"a_py", "b_png">>,
             <<"dot_env", "notes_txt", "a_test_py", "a_py">>}

\* A directory of the walk: whether scandir() may list it, and its files.
Directories ==
    [readable : {TRUE}, files : Listings]
        \cup {[readable |-> FALSE, files |-> <<"a_py">>]}

\* os.walk lists the base directory first; the directories below one that
\* cannot be listed are never reached.
Trees ==
    {t \in UNION {[1..n -> Directories] : n \in 1..MaxDirs} :
        ~t[1].readable => Len(t) = 1}

DiscoverInputs ==
    [base : {"missing", "file", "dir", "denied"}, wildcard : BOOLEAN,
     pattern : {"ok", "invalid"}, exclude_pattern : {"none", "ok", "invalid"}]

Returned(text, images, errs) ==
    [kind |-> "returned", text_files |-> text, image_files |-> images,
     errors |-> errs]

DiscoverInit ==
    /\ d_pc = "start"
    /\ d_input \in DiscoverInputs
    /\ d_tree \in (IF d_input.base = "dir" THEN Trees ELSE {<<>>})
    /\ d_next = 0
    /\ text_files = <<>> /\ image_files = <<>> /\ d_errors = <<>>
    /\ d_result = NoReturn
    /\ RenderIdle /\ RegistryIdle /\ StreamIdle /\ ConsultIdle /\ TokenIdle
    /\ ServerIdle

\* return ..., ..., errors after errors.append(message)
ReturnWith(text, images, message) ==
    /\ d_errors' = Append(d_errors, message)
    /\ d_result' = Returned(text, images, d_errors')
    /\ d_pc' = "done"
    /\ UNCHANGED <<d_input, d_tree, d_next, text_files, image_files,
                   nonDiscoverVars>>

\* if not base.exists(): ... return [], [], errors
PathDoesNotExist ==
    /\ d_pc = "start" /\ d_input.base = "missing"
    /\ ReturnWith(<<>>, <<>>, "Path does not exist")

\* if not base.is_dir(): ... return [], [], errors
PathIsNotADirectory ==
    /\ d_pc = "start" /\ d_input.base = "file"
    /\ ReturnWith(<<>>, <<>>, "Path is not a directory")

\* stat() of the base path is refused: Path.exists() re-raises the
\* PermissionError, caught by the except PermissionError clause, or (in the
\* Python versions whose exists() swallows every OSError) answers False.
StatDenied ==
    /\ d_pc = "start" /\ d_input.base = "denied"
    /\ \/ ReturnWith(text_files, image_files, "Permission denied")
       \/ ReturnWith(<<>>, <<>>, "Path does not exist")

BaseIsDirectory ==
    /\ d_pc = "start" /\ d_input.base = "dir"
    /\ d_pc' = "compile"
    /\ UNCHANGED <<d_input, d_tree, d_next, text_files, image_files, d_errors,
                   d_result, nonDiscoverVars>>

\* re.compile(pattern) raises re.error
InvalidIncludePattern ==
    /\ d_pc = "compile" /\ d_input.pattern = "invalid"
    /\ ReturnWith(<<>>, <<>>, "Invalid include pattern")

\* re.compile(exclude_pattern) raises re.error
InvalidExcludePattern ==
    /\ d_pc = "compile" /\ d_input.pattern = "ok"
    /\ d_input.exclude_pattern = "invalid"
    /\ ReturnWith(<<>>, <<>>, "Invalid exclude pattern")

PatternsCompiled ==
    /\ d_pc = "compile" /\ d_input.pattern = "ok"
    /\ d_input.exclude_pattern # "invalid"
    /\ d_pc' = "walk" /\ d_next' = 1
    /\ UNCHANGED <<d_input, d_tree, text_files, image_files, d_errors,
                   d_result, nonDiscoverVars>>

\* The files of one directory that pass the three tests of the loop body.
Kept(dir) ==
    SelectSeq(d_tree[dir].files,
              LAMBDA file : /\ ~should_ignore_path(file)
                            /\ IncludeMatches(file)
                            /\ ~ExcludeMatches(d_input.exclude_pattern, file))

Entry(dir, files) == [i \in DOMAIN files |-> <<dir, files[i]>>]

\* One iteration of `for root, dirs, files in os.walk(base)`.
WalkDirectory ==
    /\ d_pc = "walk" /\ d_next <= Len(d_tree) /\ d_tree[d_next].readable
    /\ image_files' = image_files
          \o Entry(d_next, SelectSeq(Kept(d_next), is_image_file))
    /\ text_files' = text_files
          \o Entry(d_next, SelectSeq(Kept(d_next), LAMBDA f : ~is_image_file(f)))
    /\ d_next' = d_next + 1
    /\ UNCHANGED <<d_pc, d_input, d_tree, d_errors, d_result, nonDiscoverVars>>

\* scandir() of a directory is refused: os.walk is called without onerror,
\* so it drops the OSError and goes on with the next directory.
WalkSkipsUnreadable ==
    /\ d_pc = "walk" /\ d_next <= Len(d_tree) /\ ~d_tree[d_next].readable
    /\ d_next' = d_next + 1
    /\ UNCHANGED <<d_pc, d_input, d_tree, text_files, image_files, d_errors,
                   d_result, nonDiscoverVars>>

\* The loop ends: return text_files, image_files, errors
WalkEnds ==
    /\ d_pc = "walk" /\ d_next > Len(d_tree)
    /\ d_result' = Returned(text_files, image_files, d_errors)
    /\ d_pc' = "done"
    /\ UNCHANGED <<d_input, d_tree, d_next, text_files, image_files, d_errors,
                   nonDiscoverVars>>

DiscoverNext ==
    \/ PathDoesNotExist
    \/ PathIsNotADirectory
    \/ StatDenied
    \/ BaseIsDirectory
    \/ InvalidIncludePattern
    \/ InvalidExcludePattern
    \/ PatternsCompiled
    \/ WalkDirectory
    \/ WalkSkipsUnreadable
    \/ WalkEnds

SpecDiscover == DiscoverInit /\ [][DiscoverNext]_vars

(***************************************************************************)
(* Properties of discover_files                                            *)
(***************************************************************************)

Discovered == d_pc = "done"

\* The directories the walk tried to list and could not.
Unlistable == {i \in 1..Len(d_tree) : i < d_next /\ ~d_tree[i].readable}

ErrorEntries == {d_result.errors[i] : i \in DOMAIN d_result.errors}

\* C21: a base path with a wildcard in a directory segment gives zero files
\* and a non-empty error list.
C21_WildcardDirectoryRejected ==
    (Discovered /\ d_input.wildcard) =>
        /\ d_result.text_files = <<>>
        /\ d_result.image_files = <<>>
        /\ d_result.errors # <<>>

\* C22: discover_files never raises; a missing path, a path that is not a
\* directory, an invalid include or exclude pattern and a permission error
\* during the walk each leave an entry in the returned error list, and the
\* files found until then are returned with it.
C22_EveryProblemIsAnErrorEntry ==
    Discovered =>
        /\ d_result.kind = "returned"
        /\ d_result.text_files = text_files
        /\ d_result.image_files = image_files
        /\ d_input.base = "missing" => "Path does not exist" \in ErrorEntries
        /\ d_input.base = "file" => "Path is not a directory" \in ErrorEntries
        /\ d_input.base = "denied" => d_result.errors # <<>>
        /\ (d_input.base = "dir" /\ d_input.pattern = "invalid") =>
              "Invalid include pattern" \in ErrorEntries
        /\ (d_input.base = "dir" /\ d_input.pattern = "ok"
                /\ d_input.exclude_pattern = "invalid") =>
              "Invalid exclude pattern" \in ErrorEntries
        /\ Unlistable # {} => d_result.errors # <<>>

(***************************************************************************)
(* server.py: consultation requests running as concurrent tasks of one     *)
(* event loop.  A task runs until it suspends at an await of a network     *)
(* operation; get_model_context_info assigns the module global             *)
(* model_context_length, consultation_impl and the call_* functions keep   *)
(* what it returned in locals.                                             *)
(***************************************************************************)

MaxRequests == 2

Requests == 1..MaxRequests

ServerModels == {<<"m1">>, <<"m2">>, <<"m1", "128k">>}

\* context_length the vendor reports for a model.
VendorContextLength(name) == IF name = "m1" THEN ReportedContextLength ELSE 1000000

\* What the two metadata fetches of one request are answered with.
FetchAnswers == [first : {"ok", "fails"}, second : {"ok", "fails"}]

\* get_model_context_info(model_name) of server.py, given the answer to its
\* fetch: the ValueError, or the context_length of the dict it returns,
\* which is also the value it assigns to the global.
server_get_model_context_info(prov, model_spec, answer) ==
    IF prov = "openai"
    THEN LET specified == IF Len(model_spec) >= 2 /\ model_spec[2] # "thinking"
                          THEN ParseContext(model_spec[2]) ELSE NoneInt
         IN IF specified.isNone THEN [kind |-> "ValueError", context_length |-> 0]
            ELSE [kind |-> "return", context_length |-> specified.v]
    ELSE [kind |-> "return",
          context_length |-> IF answer = "ok" THEN VendorContextLength(model_spec[1])
                             ELSE DEFAULT_CONTEXT_LENGTH]

\* Only the OpenRouter fetch suspends: get_google_model_info has no await
\* and the openai branch makes no request.
Suspends(prov) == prov = "openrouter"

\* model_for_info of consultation_impl; the call_* functions pass the name.
ServerModelForInfo(prov, model_spec) ==
    IF prov = "openai" THEN model_spec ELSE <<model_spec[1]>>

ServerResult(tag, limit, context_length) ==
    [tag |-> tag, limit |-> limit, context_length |-> context_length]

ServerInit ==
    /\ model_context_length = NoneInt
    /\ q_provider \in {"openrouter", "google", "openai"}
    /\ q_pc = [r \in Requests |-> "start"]
    /\ q_model \in [Requests -> ServerModels]
    /\ q_fetch \in [Requests -> FetchAnswers]
    /\ q_local = [r \in Requests |-> NoneInt]
    /\ q_result = [r \in Requests |-> ServerResult("unset", NoneInt, NoneInt)]
    /\ RenderIdle /\ RegistryIdle /\ StreamIdle /\ ConsultIdle /\ TokenIdle
    /\ DiscoverIdle

\* get_model_context_info runs from its fetch to its return inside
\* consultation_impl: the global is assigned, the local is set from the
\* returned dict, or the ValueError becomes the "Error: ..." return.
InfoCompletes(r) ==
    LET info == server_get_model_context_info(
                    q_provider, ServerModelForInfo(q_provider, q_model[r]),
                    q_fetch[r].first)
    IN IF info.kind = "ValueError"
       THEN /\ q_pc' = [q_pc EXCEPT ![r] = "done"]
            /\ q_result' = [q_result EXCEPT ![r] = ServerResult("error", NoneInt, NoneInt)]
            /\ UNCHANGED <<model_context_length, q_local>>
       ELSE /\ model_context_length' = SomeInt(info.context_length)
            /\ q_local' = [q_local EXCEPT ![r] = SomeInt(info.context_length)]
            /\ q_pc' = [q_pc EXCEPT ![r] = "call"]
            /\ UNCHANGED q_result

\* consultation_impl up to `await get_model_context_info(model_for_info)`.
ServerStart(r) ==
    /\ q_pc[r] = "start"
    /\ IF Suspends(q_provider)
       THEN /\ q_pc' = [q_pc EXCEPT ![r] = "info_await"]
            /\ UNCHANGED <<model_context_length, q_local, q_result>>
       ELSE InfoCompletes(r)
    /\ UNCHANGED <<q_provider, q_model, q_fetch, nonServerVars>>

\* The metadata fetch of consultation_impl is answered.
ServerInfoReturns(r) ==
    /\ q_pc[r] = "info_await"
    /\ InfoCompletes(r)
    /\ UNCHANGED <<q_provider, q_model, q_fetch, nonServerVars>>

\* get_model_context_info inside call_google / call_openai / call_openrouter
\* returns: the global is assigned again, the context_length the size check
\* uses is a local, and the completion request is sent.
CallInfoCompletes(r) ==
    LET info == server_get_model_context_info(
                    q_provider, ServerModelForInfo(q_provider, q_model[r]),
                    q_fetch[r].second)
    IN /\ model_context_length' = SomeInt(info.context_length)
       /\ q_result' = [q_result EXCEPT ![r] =
                          ServerResult("pending", NoneInt, SomeInt(info.context_length))]
       /\ q_pc' = [q_pc EXCEPT ![r] = "completion"]
       /\ UNCHANGED q_local

\* consultation_impl calls call_*, which runs to its first await.
ServerCall(r) ==
    /\ q_pc[r] = "call"
    /\ IF Suspends(q_provider)
       THEN /\ q_pc' = [q_pc EXCEPT ![r] = "call_info_await"]
            /\ UNCHANGED <<model_context_length, q_local, q_result>>
       ELSE CallInfoCompletes(r)
    /\ UNCHANGED <<q_provider, q_model, q_fetch, nonServerVars>>

\* The metadata fetch of call_openrouter is answered.
ServerCallInfoReturns(r) ==
    /\ q_pc[r] = "call_info_await"
    /\ CallInfoCompletes(r)
    /\ UNCHANGED <<q_provider, q_model, q_fetch, nonServerVars>>

\* The completion request is answered; consultation_impl returns the text
\* with token_info, which quotes its local model_context_length.
ServerCompletionReturns(r) ==
    /\ q_pc[r] = "completion"
    /\ \E tag \in {"success", "llm_error"} :
          q_result' = [q_result EXCEPT ![r] =
                          ServerResult(tag, q_local[r], q_result[r].context_length)]
    /\ q_pc' = [q_pc EXCEPT ![r] = "done"]
    /\ UNCHANGED <<model_context_length, q_local, q_provider, q_model, q_fetch,
                   nonServerVars>>

ServerNext ==
    \E r \in Requests :
        \/ ServerStart(r)
        \/ ServerInfoReturns(r)
        \/ ServerCall(r)
        \/ ServerCallInfoReturns(r)
        \/ ServerCompletionReturns(r)

SpecServer == ServerInit /\ [][ServerNext]_vars

(***************************************************************************)
(* Properties of concurrent requests                                       *)
(***************************************************************************)

\* What request r returns when it runs alone with the same vendor answers.
AloneResult(r, tag) ==
    LET spec == ServerModelForInfo(q_provider, q_model[r])
        first == server_get_model_context_info(q_provider, spec, q_fetch[r].first)
        second == server_get_model_context_info(q_provider, spec, q_fetch[r].second)
    IN IF first.kind = "ValueError" THEN ServerResult("error", NoneInt, NoneInt)
       ELSE ServerResult(tag, SomeInt(first.context_length),
                         SomeInt(second.context_length))

\* Every finished request returned what it returns when run alone.
ResultsAsAlone ==
    \A r \in Requests :
        q_pc[r] = "done" => q_result[r] = AloneResult(r, q_result[r].tag)

\* C27: requests share no mutable state besides the registry: no step of a
\* request changes a module global, and every request's result is the one
\* it produces when run alone.
C27_RequestsShareNoMutableState ==
    /\ model_context_length = NoneInt
    /\ ResultsAsAlone

====
